---- MODULE Spec2Model ----
(***************************************************************************)
(* artistpath: the memory-mapped graph accessor and the bidirectional      *)
(* BFS / Dijkstra path search of the core crate.                           *)
(*                                                                         *)
(* Artists are the UUIDs 1..NumArtists (Uuid::from_u128).  A similarity is *)
(* an f32 that is a multiple of 0.25, held as its number of quarters, so   *)
(* every sum and every 1.0 - similarity of the code is exact in f32.       *)
(***************************************************************************)
EXTENDS Integers, Sequences, FiniteSets, TLC

\* ------------------------------------------------------------------ bounds
NumArtists == 3
MaxEdges == 3
MaxConnections == 3

\* --------------------------------------------------------------- constants
\* 1.0_f32 in quarters (edge_weight = 1.0 - similarity)
SimOne == 4
UuidLen == 16
U32Len == 4
F32Len == 4

Artists == 1..NumArtists
Sims == {1, 3}
AllSims == 0..SimOne

Min(a, b) == IF a <= b THEN a ELSE b

MinOfSet(S) == CHOOSE x \in S : \A y \in S : x <= y

\* ------------------------------------------------------------ binary codec
Zeros(n) == [i \in 1..n |-> 0]

\* Uuid::into_bytes of the artist with u128 value a (big-endian)
UuidBytes(a) == Zeros(UuidLen - 1) \o <<a>>

\* write_u32::<LittleEndian>
U32LE(n) ==
    << n % 256, (n \div 256) % 256, (n \div 65536) % 256, (n \div 16777216) % 256 >>

\* IEEE-754 single precision bit pattern of s/4
F32Bits(s) ==
    CASE s = 0 -> 0
      [] s = 1 -> 1048576000
      [] s = 2 -> 1056964608
      [] s = 3 -> 1061158912
      [] s = 4 -> 1065353216

\* write_f32::<LittleEndian>
F32LE(s) == U32LE(F32Bits(s))

\* the big-endian value of b[1..n] (Uuid::from_bytes, as a u128)
RECURSIVE ValueBE(_, _)
ValueBE(b, n) == IF n = 0 THEN 0 ELSE ValueBE(b, n - 1) * 256 + b[n]

BytesBE(b) == ValueBE(b, Len(b))

\* the little-endian value of b[i..Len(b)] (u32::from_le_bytes)
RECURSIVE ValueLE(_, _)
ValueLE(b, i) == IF i > Len(b) THEN 0 ELSE b[i] + 256 * ValueLE(b, i + 1)

BytesLE(b) == ValueLE(b, 1)

\* f32::from_bits; -1 stands for a value that is no multiple of 0.25 in [0,1]
F32FromBits(bits) ==
    IF \E s \in AllSims : F32Bits(s) = bits
    THEN CHOOSE s \in AllSims : F32Bits(s) = bits
    ELSE -1

\* one adjacency record: uuid(16) || count:u32le || (uuid(16) || f32le){count}
RECURSIVE WriteEdges(_)
WriteEdges(edges) ==
    IF Len(edges) = 0 THEN <<>>
    ELSE UuidBytes(edges[1][1]) \o F32LE(edges[1][2]) \o WriteEdges(Tail(edges))

WriteRecord(artist, edges) ==
    UuidBytes(artist) \o U32LE(Len(edges)) \o WriteEdges(edges)

RecordLen(edges) == UuidLen + U32Len + Len(edges) * (UuidLen + F32Len)

\* the graph file: the records of artists 1..n in that order; a sparse file
\* holds no record for an artist without edges
Stored(adj, a, sparse) == ~sparse \/ Len(adj[a]) > 0

RECURSIVE WriteGraph(_, _, _)
WriteGraph(adj, n, sparse) ==
    IF n = 0 THEN <<>>
    ELSE WriteGraph(adj, n - 1, sparse)
         \o (IF Stored(adj, n, sparse) THEN WriteRecord(n, adj[n]) ELSE <<>>)

\* stream_position() before the record of artist n is written
RECURSIVE RecordPosition(_, _, _)
RecordPosition(adj, n, sparse) ==
    IF n = 1 THEN 0
    ELSE RecordPosition(adj, n - 1, sparse)
         + (IF Stored(adj, n - 1, sparse) THEN RecordLen(adj[n - 1]) ELSE 0)

\* index.insert(artist, position) for every record written
WriteIndex(adj, sparse) ==
    [a \in {b \in DOMAIN adj : Stored(adj, b, sparse)} |-> RecordPosition(adj, a, sparse)]

\* ---------------------------------------------------------- graph accessor
Cursor(buf) == [buf |-> buf, pos |-> 0]

\* Read::read_exact on a Cursor<&[u8]>
read_exact(cursor, n) ==
    IF cursor.pos + n <= Len(cursor.buf)
    THEN [ok |-> TRUE,
          bytes |-> SubSeq(cursor.buf, cursor.pos + 1, cursor.pos + n),
          cursor |-> [cursor EXCEPT !.pos = @ + n]]
    ELSE [ok |-> FALSE, bytes |-> <<>>, cursor |-> cursor]

read_uuid_from_cursor(cursor) ==
    LET r == read_exact(cursor, UuidLen)
    IN  [ok |-> r.ok, value |-> BytesBE(r.bytes), cursor |-> r.cursor]

read_u32(cursor) ==
    LET r == read_exact(cursor, U32Len)
    IN  [ok |-> r.ok, value |-> BytesLE(r.bytes), cursor |-> r.cursor]

read_f32(cursor) ==
    LET r == read_exact(cursor, F32Len)
    IN  [ok |-> r.ok, value |-> F32FromBits(BytesLE(r.bytes)), cursor |-> r.cursor]

Err == [ok |-> FALSE, connections |-> <<>>]

\* the for loop of parse_artist_connections: `?` returns the error and drops
\* the connections read so far
RECURSIVE ReadConnections(_, _, _)
ReadConnections(cursor, remaining, connections) ==
    IF remaining = 0 THEN [ok |-> TRUE, connections |-> connections]
    ELSE LET u == read_uuid_from_cursor(cursor)
         IN  IF ~u.ok THEN Err
             ELSE LET f == read_f32(u.cursor)
                  IN  IF ~f.ok THEN Err
                      ELSE ReadConnections(f.cursor, remaining - 1,
                                           Append(connections, <<u.value, f.value>>))

\* the mutant: a failed read ends the loop and keeps what was read
RECURSIVE ReadConnectionsPartial(_, _, _)
ReadConnectionsPartial(cursor, remaining, connections) ==
    IF remaining = 0 THEN [ok |-> TRUE, connections |-> connections]
    ELSE LET u == read_uuid_from_cursor(cursor)
         IN  IF ~u.ok THEN [ok |-> TRUE, connections |-> connections]
             ELSE LET f == read_f32(u.cursor)
                  IN  IF ~f.ok THEN [ok |-> TRUE, connections |-> connections]
                      ELSE ReadConnectionsPartial(f.cursor, remaining - 1,
                                           Append(connections, <<u.value, f.value>>))

parse_artist_connections_partial(expected_artist_id, cursor) ==
    LET stored == read_uuid_from_cursor(cursor)
    IN  IF ~stored.ok THEN Err
        ELSE IF stored.value # expected_artist_id THEN Err
        ELSE LET count == read_u32(stored.cursor)
             IN  IF ~count.ok THEN Err
                 ELSE ReadConnectionsPartial(count.cursor, count.value, <<>>)

parse_artist_connections(expected_artist_id, cursor) ==
    LET stored == read_uuid_from_cursor(cursor)
    IN  IF ~stored.ok THEN Err
        ELSE IF stored.value # expected_artist_id THEN Err
        ELSE LET count == read_u32(stored.cursor)
             IN  IF ~count.ok THEN Err
                 ELSE ReadConnections(count.cursor, count.value, <<>>)

\* Vec::retain(|(_, similarity)| *similarity >= min_match)
retain(connections, min_match) ==
    SelectSeq(connections, LAMBDA c : c[2] >= min_match)

\* slice::sort_by(|a, b| b.1.partial_cmp(&a.1)): stable, descending by
\* similarity; x goes behind every element that does not compare after it
RECURSIVE InsertDescending(_, _)
InsertDescending(sorted, x) ==
    IF Len(sorted) = 0 THEN <<x>>
    ELSE IF sorted[1][2] >= x[2]
         THEN <<sorted[1]>> \o InsertDescending(Tail(sorted), x)
         ELSE <<x>> \o sorted

RECURSIVE InsertAscending(_, _)
InsertAscending(sorted, x) ==
    IF Len(sorted) = 0 THEN <<x>>
    ELSE IF sorted[1][2] <= x[2]
         THEN <<sorted[1]>> \o InsertAscending(Tail(sorted), x)
         ELSE <<x>> \o sorted

RECURSIVE sort_by_ascending(_)
sort_by_ascending(connections) ==
    IF Len(connections) = 0 THEN <<>>
    ELSE InsertAscending(sort_by_ascending(SubSeq(connections, 1, Len(connections) - 1)),
                         connections[Len(connections)])

RECURSIVE sort_by(_)
sort_by(connections) ==
    IF Len(connections) = 0 THEN <<>>
    ELSE InsertDescending(sort_by(SubSeq(connections, 1, Len(connections) - 1)),
                          connections[Len(connections)])

\* Vec::truncate
truncate(connections, len) ==
    IF len < Len(connections) THEN SubSeq(connections, 1, len) ELSE connections

\* mutants of filter_and_sort_connections
filter_and_sort_unfiltered(connections, config) ==
    truncate(sort_by(connections), config.top_related)

filter_and_sort_strict(connections, config) ==
    LET retained == IF config.min_match > 0
                    THEN SelectSeq(connections, LAMBDA c : c[2] > config.min_match)
                    ELSE connections
    IN  truncate(sort_by(retained), config.top_related)

filter_and_sort_ascending(connections, config) ==
    LET retained == IF config.min_match > 0
                    THEN retain(connections, config.min_match)
                    ELSE connections
    IN  truncate(sort_by_ascending(retained), config.top_related)

filter_and_sort_connections(connections, config) ==
    LET retained == IF config.min_match > 0
                    THEN retain(connections, config.min_match)
                    ELSE connections
    IN  truncate(sort_by(retained), config.top_related)

\* graph_index.get(&artist_id): -1 stands for None
find_artist_position(artist_id, graph_index) ==
    IF artist_id \in DOMAIN graph_index THEN graph_index[artist_id] ELSE -1

\* Cursor::new(&graph_data[position..])
create_cursor_at_position(graph_data, position) ==
    Cursor(SubSeq(graph_data, position + 1, Len(graph_data)))

\* variant: an artist without an index entry is read from the first record
\* of the file, whichever artist that record belongs to
get_artist_connections_first_record(artist_id, graph_data, graph_index, config) ==
    LET file_position == find_artist_position(artist_id, graph_index)
    IN  IF file_position = -1
        THEN LET owner == read_uuid_from_cursor(create_cursor_at_position(graph_data, 0))
                 first == IF owner.ok
                          THEN parse_artist_connections(
                                   owner.value, create_cursor_at_position(graph_data, 0))
                          ELSE Err
             IN  IF first.ok
                 THEN filter_and_sort_connections(first.connections, config)
                 ELSE <<>>
        ELSE IF file_position >= Len(graph_data) THEN <<>>
        ELSE LET parsed == parse_artist_connections(
                               artist_id,
                               create_cursor_at_position(graph_data, file_position))
             IN  IF parsed.ok
                 THEN filter_and_sort_connections(parsed.connections, config)
                 ELSE <<>>

get_artist_connections(artist_id, graph_data, graph_index, config) ==
    LET file_position == find_artist_position(artist_id, graph_index)
    IN  IF file_position = -1 THEN <<>>
        ELSE IF file_position >= Len(graph_data) THEN <<>>
        ELSE LET parsed == parse_artist_connections(
                               artist_id,
                               create_cursor_at_position(graph_data, file_position))
             IN  IF parsed.ok
                 THEN filter_and_sort_connections(parsed.connections, config)
                 ELSE <<>>

\* ------------------------------------------------------------------ state
VARIABLES
    algorithm, start, target, config, fx_order,
    forward_graph_data, forward_graph_index,
    reverse_graph_data, reverse_graph_index,
    pc,
    forward_queue, reverse_queue, forward_visited, reverse_visited,
    forward_queued, reverse_queued, forward_parent, reverse_parent, visited,
    forward_state, reverse_state, forward_finished, all_visited,
    path,
    artist_id, connections,
    budget, result, edges, exploration,
    artist1, app_name_lookup, app_artist_metadata, resolved, cleaned,
    previous,
    cache, cache_file, dirty, insert_pc, writer_pc

inputs == << algorithm, start, target, config, fx_order,
             forward_graph_data, forward_graph_index,
             reverse_graph_data, reverse_graph_index >>
bfs_vars == << forward_queue, reverse_queue, forward_visited, reverse_visited,
               forward_queued, reverse_queued, forward_parent, reverse_parent,
               visited >>
dijkstra_vars == << forward_state, reverse_state, forward_finished, all_visited >>
accessor_vars == << artist_id, connections >>
context_vars == << budget, result, edges, exploration >>
\* what the path search leaves alone
lookup_vars == << artist1, app_name_lookup, app_artist_metadata, resolved, cleaned >>

storage_vars == << cache, cache_file, dirty, insert_pc, writer_pc >>

outside_search == << accessor_vars, context_vars, lookup_vars, previous, storage_vars >>

\* no earlier run of the same query
NoPrevious == [kind |-> "none", path |-> << >>, artists_visited |-> 0]
vars == << inputs, pc, bfs_vars, dijkstra_vars, path, outside_search >>

\* FxHashMap
EmptyMap == [k \in {} |-> 0]
MapInsert(m, k, v) == [x \in DOMAIN m \cup {k} |-> IF x = k THEN v ELSE m[x]]

\* Option<Vec<PathStep>>
None == [some |-> FALSE, steps |-> <<>>]
Some(steps) == [some |-> TRUE, steps |-> steps]

Reverse(s) == [i \in 1..Len(s) |-> s[Len(s) + 1 - i]]

\* ----------------------------------------------------- bidirectional BFS
\* the loop of one side without its test of the queued set
RECURSIVE bfs_enqueue_neighbors_requeue(_, _, _, _)
bfs_enqueue_neighbors_requeue(conns, current, side_visited, side) ==
    IF Len(conns) = 0 THEN side
    ELSE LET neighbor == conns[1][1]
             similarity == conns[1][2]
         IN  bfs_enqueue_neighbors_requeue(
                 Tail(conns), current, side_visited,
                 IF neighbor \notin side_visited
                 THEN [parent |-> MapInsert(side.parent, neighbor, <<current, similarity>>),
                       queue |-> Append(side.queue, neighbor),
                       queued |-> side.queued \cup {neighbor}]
                 ELSE side)

\* `for (neighbor, similarity) in connections` of one side
RECURSIVE bfs_enqueue_neighbors(_, _, _, _)
bfs_enqueue_neighbors(conns, current, side_visited, side) ==
    IF Len(conns) = 0 THEN side
    ELSE LET neighbor == conns[1][1]
             similarity == conns[1][2]
         IN  bfs_enqueue_neighbors(
                 Tail(conns), current, side_visited,
                 IF neighbor \notin side_visited /\ neighbor \notin side.queued
                 THEN [parent |-> MapInsert(side.parent, neighbor, <<current, similarity>>),
                       queue |-> Append(side.queue, neighbor),
                       queued |-> side.queued \cup {neighbor}]
                 ELSE side)

\* the while loops that follow a parent map from the meeting point; the
\* element pushed per step is (current, similarity)
RECURSIVE walk_parents(_, _, _)
walk_parents(parent_map, current, root) ==
    IF current = root THEN <<>>
    ELSE IF current \in DOMAIN parent_map
         THEN << <<current, parent_map[current][2]>> >>
              \o walk_parents(parent_map, parent_map[current][1], root)
         ELSE <<>>

\* the same walk pushing (parent, similarity)
RECURSIVE walk_to_target(_, _, _)
walk_to_target(parent_map, current, root) ==
    IF current = root THEN <<>>
    ELSE IF current \in DOMAIN parent_map
         THEN << <<parent_map[current][1], parent_map[current][2]>> >>
              \o walk_to_target(parent_map, parent_map[current][1], root)
         ELSE <<>>

\* mutant: path_to_start is not reversed
reconstruct_bidirectional_path_unreversed(fparent, rparent, s, t, meeting_point) ==
    LET path_to_start == Append(walk_parents(fparent, meeting_point, s), <<s, 0>>)
        path_to_target == walk_to_target(rparent, meeting_point, t)
    IN  path_to_start \o path_to_target

\* mutant: the target is pushed after the reverse walk, as the Dijkstra
\* reconstruction does, without dropping the meeting point
reconstruct_bidirectional_path_with_target(fparent, rparent, s, t, meeting_point) ==
    LET path_to_start == Append(walk_parents(fparent, meeting_point, s), <<s, 0>>)
        path_to_target == Append(walk_to_target(rparent, meeting_point, t), <<t, 0>>)
    IN  Reverse(path_to_start) \o path_to_target

reconstruct_bidirectional_path(fparent, rparent, s, t, meeting_point) ==
    LET path_to_start == Append(walk_parents(fparent, meeting_point, s), <<s, 0>>)
        path_to_target == walk_to_target(rparent, meeting_point, t)
    IN  Reverse(path_to_start) \o path_to_target

\* one `if let Some(current) = queue.pop_front()` block of the main loop
bfs_expand(queue, side_visited, queued, parent, other_visited, graph_data, graph_index) ==
    IF Len(queue) = 0
    THEN [outcome |-> "empty", current |-> 0, queue |-> queue,
          visited |-> side_visited, queued |-> queued, parent |-> parent]
    ELSE LET current == Head(queue)
         IN  IF current \in side_visited
             THEN [outcome |-> "skip", current |-> current, queue |-> Tail(queue),
                   visited |-> side_visited, queued |-> queued, parent |-> parent]
             ELSE IF current \in other_visited
             THEN [outcome |-> "met", current |-> current, queue |-> Tail(queue),
                   visited |-> side_visited \cup {current},
                   queued |-> queued \ {current}, parent |-> parent]
             ELSE LET side == bfs_enqueue_neighbors(
                                  get_artist_connections(current, graph_data,
                                                         graph_index, config),
                                  current,
                                  side_visited \cup {current},
                                  [parent |-> parent, queue |-> Tail(queue),
                                   queued |-> queued \ {current}])
                  IN  [outcome |-> "expanded", current |-> current,
                       queue |-> side.queue,
                       visited |-> side_visited \cup {current},
                       queued |-> side.queued, parent |-> side.parent]

\* ------------------------------------------------ bidirectional Dijkstra
\* an order whose ties fall one way in the first run of a query and the
\* other way in the second
NodeLe_tie_by_run(a, b) ==
    \/ a[1] > b[1]
    \/ a[1] = b[1] /\ (IF previous = NoPrevious THEN a[2] <= b[2] ELSE a[2] >= b[2])

\* the order of a max-heap on the cost
NodeLe_costliest_first(a, b) == a[1] <= b[1]

\* DijkstraNode is <<cost, artist>>.  a <= b under DijkstraNode::cmp, which
\* compares other.cost with self.cost
NodeLe(a, b) == a[1] >= b[1]

\* BinaryHeap::sift_up: data has a hole at pos (0-based) for element
RECURSIVE sift_up(_, _, _, _)
sift_up(data, first, pos, element) ==
    IF pos > first
    THEN LET parent == (pos - 1) \div 2
         IN  IF NodeLe(element, data[parent + 1])
             THEN [data EXCEPT ![pos + 1] = element]
             ELSE sift_up([data EXCEPT ![pos + 1] = data[parent + 1]],
                          first, parent, element)
    ELSE [data EXCEPT ![pos + 1] = element]

\* BinaryHeap::push
heap_push(data, item) == sift_up(Append(data, item), 0, Len(data), item)

\* BinaryHeap::sift_down_to_bottom(0)
RECURSIVE sift_down_to_bottom(_, _, _)
sift_down_to_bottom(data, pos, element) ==
    LET end == Len(data)
        child == 2 * pos + 1
    IN  IF end >= 2 /\ child <= end - 2
        THEN LET c == IF NodeLe(data[child + 1], data[child + 2])
                      THEN child + 1 ELSE child
             IN  sift_down_to_bottom([data EXCEPT ![pos + 1] = data[c + 1]], c, element)
        ELSE IF child = end - 1
             THEN sift_up([data EXCEPT ![pos + 1] = data[child + 1]], 0, child, element)
             ELSE sift_up(data, 0, pos, element)

\* BinaryHeap::pop on a heap that is not empty
heap_pop(data) ==
    LET last == data[Len(data)]
        rest == SubSeq(data, 1, Len(data) - 1)
    IN  IF Len(rest) = 0
        THEN [item |-> last, data |-> rest]
        ELSE [item |-> rest[1], data |-> sift_down_to_bottom(rest, 0, last)]

\* DijkstraState::new
DijkstraState_new(s) ==
    [heap |-> heap_push(<<>>, <<0, s>>),
     distances |-> MapInsert(EmptyMap, s, 0),
     parent_map |-> EmptyMap,
     visited |-> {}]

\* DijkstraState::visit_neighbor
visit_neighbor(state, neighbor, current, similarity, current_cost) ==
    LET edge_weight == SimOne - similarity
        new_cost == current_cost + edge_weight
    IN  IF neighbor \in DOMAIN state.distances /\ new_cost >= state.distances[neighbor]
        THEN state
        ELSE [state EXCEPT
                 !.distances = MapInsert(@, neighbor, new_cost),
                 !.parent_map = MapInsert(@, neighbor, <<current, similarity>>),
                 !.heap = heap_push(@, <<new_cost, neighbor>>)]

\* `for (neighbor, similarity) in connections { state.visit_neighbor(..) }`
RECURSIVE visit_neighbors(_, _, _, _)
visit_neighbors(state, conns, current, current_cost) ==
    IF Len(conns) = 0 THEN state
    ELSE visit_neighbors(
             visit_neighbor(state, conns[1][1], current, conns[1][2], current_cost),
             Tail(conns), current, current_cost)

\* mutant: the meeting point is kept in the second half as well
reconstruct_dijkstra_path_keep_meeting(fparent, rparent, s, t, meeting_point) ==
    LET path_to_start == Append(walk_parents(fparent, meeting_point, s), <<s, 0>>)
        path_to_target == Append(walk_parents(rparent, meeting_point, t), <<t, 0>>)
    IN  Reverse(path_to_start) \o path_to_target

reconstruct_bidirectional_dijkstra_path(fparent, rparent, s, t, meeting_point) ==
    LET path_to_start == Append(walk_parents(fparent, meeting_point, s), <<s, 0>>)
        path_to_target == Append(walk_parents(rparent, meeting_point, t), <<t, 0>>)
    IN  Reverse(path_to_start)
        \o (IF Len(path_to_target) > 1 THEN Tail(path_to_target) ELSE <<>>)

\* one `if let Some(DijkstraNode { cost, artist }) = state.heap.pop()` block
dijkstra_expand(state, other_visited, graph_data, graph_index) ==
    IF Len(state.heap) = 0
    THEN [outcome |-> "finished", current |-> 0, state |-> state]
    ELSE LET popped == heap_pop(state.heap)
             cost == popped.item[1]
             current == popped.item[2]
             after_pop == [state EXCEPT !.heap = popped.data]
         IN  IF current \in state.visited
             THEN [outcome |-> "skip", current |-> current, state |-> after_pop]
             ELSE IF current \in other_visited
             THEN [outcome |-> "met", current |-> current, state |-> after_pop]
             ELSE [outcome |-> "relaxed", current |-> current,
                   state |-> visit_neighbors(
                       [after_pop EXCEPT !.visited = @ \cup {current}],
                       get_artist_connections(current, graph_data, graph_index, config),
                       current, cost)]

\* --------------------------------------------- path with its neighbourhood
\* "Combine connections": the reverse list merged into the forward list, the
\* higher similarity kept for an artist both lists name
RECURSIVE combine_connections(_, _)
combine_connections(forward_connections, reverse_connections) ==
    IF Len(reverse_connections) = 0 THEN forward_connections
    ELSE LET reverse_artist == reverse_connections[1][1]
             reverse_sim == reverse_connections[1][2]
             found == { i \in 1..Len(forward_connections) :
                          forward_connections[i][1] = reverse_artist }
         IN  combine_connections(
                 IF found # {}
                 THEN LET existing_pos == CHOOSE i \in found : \A j \in found : i <= j
                      IN  IF reverse_sim > forward_connections[existing_pos][2]
                          THEN [forward_connections EXCEPT ![existing_pos][2] = reverse_sim]
                          ELSE forward_connections
                 ELSE Append(forward_connections, <<reverse_artist, reverse_sim>>),
                 Tail(reverse_connections))

\* BiDirectionalGraphs
BiDirectionalGraphs(fdata, findex, rdata, rindex) ==
    [forward |-> <<fdata, findex>>, reverse |-> <<rdata, rindex>>]

\* the two get_artist_connections calls on one artist, combined
both_connections(artist, graphs, cfg) ==
    combine_connections(
        get_artist_connections(artist, graphs.forward[1], graphs.forward[2], cfg),
        get_artist_connections(artist, graphs.reverse[1], graphs.reverse[2], cfg))

\* `for (idx, &(artist_id, similarity)) in path.iter().enumerate()`
RECURSIVE insert_path_artists(_, _, _)
insert_path_artists(steps, idx, discovered_artists) ==
    IF idx >= Len(steps) THEN discovered_artists
    ELSE insert_path_artists(
             steps, idx + 1,
             MapInsert(discovered_artists, steps[idx + 1][1], <<steps[idx + 1][2], idx>>))

RECURSIVE collect_path_connections(_, _, _)
collect_path_connections(steps, graphs, cfg) ==
    IF Len(steps) = 0 THEN EmptyMap
    ELSE MapInsert(
             collect_path_connections(SubSeq(steps, 1, Len(steps) - 1), graphs, cfg),
             steps[Len(steps)][1],
             both_connections(steps[Len(steps)][1], graphs, cfg))

MaxOfSet(S) == CHOOSE x \in S : \A y \in S : x >= y

\* per artist off the path: the highest similarity of an entry naming it
\* (starting from 0.0) and the number of such entries; the order in which the
\* map's values are visited changes neither
analyze_neighbor_connectivity(steps, path_connections) ==
    LET path_set == { steps[i][1] : i \in 1..Len(steps) }
        entries == UNION { { <<k, i>> : i \in 1..Len(path_connections[k]) } :
                           k \in DOMAIN path_connections }
        naming(n) == { e \in entries : path_connections[e[1]][e[2]][1] = n }
        neighbors == { path_connections[e[1]][e[2]][1] : e \in entries } \ path_set
    IN  [n \in neighbors |->
            [similarity |-> MaxOfSet({0} \cup { path_connections[e[1]][e[2]][2] :
                                                e \in naming(n) }),
             path_connections |-> Cardinality(naming(n))]]


\* variant: among candidates with equally many path connections the least
\* similar comes first
prioritize_neighbors_least_similar_first(neighbor_info) ==
    LET ids == DOMAIN neighbor_info
        n == Cardinality(ids)
        before(a, b) ==
            \/ neighbor_info[a].path_connections > neighbor_info[b].path_connections
            \/ /\ neighbor_info[a].path_connections = neighbor_info[b].path_connections
               /\ neighbor_info[a].similarity <= neighbor_info[b].similarity
    IN  { [i \in 1..n |-> <<order[i], neighbor_info[order[i]].similarity,
                            neighbor_info[order[i]].path_connections>>] :
            order \in { o \in [1..n -> ids] :
                          /\ \A i, j \in 1..n : i # j => o[i] # o[j]
                          /\ \A i \in 1..(n - 1) : before(o[i], o[i + 1]) } }

\* the orders prioritize_neighbors can return: by connection count
\* descending, then similarity descending; the stable sort leaves equal
\* entries in the iteration order of the hash map, which is any order
prioritize_neighbors(neighbor_info) ==
    LET ids == DOMAIN neighbor_info
        n == Cardinality(ids)
        before(a, b) ==
            \/ neighbor_info[a].path_connections > neighbor_info[b].path_connections
            \/ /\ neighbor_info[a].path_connections = neighbor_info[b].path_connections
               /\ neighbor_info[a].similarity >= neighbor_info[b].similarity
    IN  { [i \in 1..n |-> <<order[i], neighbor_info[order[i]].similarity,
                            neighbor_info[order[i]].path_connections>>] :
            order \in { o \in [1..n -> ids] :
                          /\ \A i, j \in 1..n : i # j => o[i] # o[j]
                          /\ \A i \in 1..(n - 1) : before(o[i], o[i + 1]) } }

\* mutant: the loop does not stop when the budget is reached
RECURSIVE add_neighbors_unbounded(_, _, _, _)
add_neighbors_unbounded(neighbors, discovered_artists, all_connections, context) ==
    IF Len(neighbors) = 0
    THEN [discovered |-> discovered_artists, connections |-> all_connections]
    ELSE add_neighbors_unbounded(
             Tail(neighbors),
             MapInsert(discovered_artists, neighbors[1][1],
                       <<neighbors[1][2], context.path_length>>),
             MapInsert(all_connections, neighbors[1][1],
                       both_connections(neighbors[1][1], context.graphs, context.config)),
             context)


\* variant: an admitted neighbour is recorded without its connections
RECURSIVE add_neighbors_without_connections(_, _, _, _)
add_neighbors_without_connections(neighbors, discovered_artists, all_connections, context) ==
    IF Len(neighbors) = 0 \/ Cardinality(DOMAIN discovered_artists) >= context.budget
    THEN [discovered |-> discovered_artists, connections |-> all_connections]
    ELSE LET neighbor == neighbors[1][1]
             similarity == neighbors[1][2]
         IN  add_neighbors_without_connections(
                 Tail(neighbors),
                 IF neighbor \in DOMAIN discovered_artists THEN discovered_artists
                 ELSE MapInsert(discovered_artists, neighbor,
                                <<similarity, context.path_length>>),
                 all_connections, context)

\* context is [graphs, config, budget, path_length]
RECURSIVE add_neighbors_to_discovered(_, _, _, _)
add_neighbors_to_discovered(neighbors, discovered_artists, all_connections, context) ==
    IF Len(neighbors) = 0 \/ Cardinality(DOMAIN discovered_artists) >= context.budget
    THEN [discovered |-> discovered_artists, connections |-> all_connections]
    ELSE LET neighbor == neighbors[1][1]
             similarity == neighbors[1][2]
         IN  IF neighbor \in DOMAIN discovered_artists
             THEN add_neighbors_to_discovered(
                      Tail(neighbors), discovered_artists, all_connections, context)
             ELSE add_neighbors_to_discovered(
                      Tail(neighbors),
                      MapInsert(discovered_artists, neighbor,
                                <<similarity, context.path_length>>),
                      MapInsert(all_connections, neighbor,
                                both_connections(neighbor, context.graphs, context.config)),
                      context)

\* u32/usize saturating_sub
saturating_sub(a, b) == IF a >= b THEN a - b ELSE 0

\* the results explore_path_neighborhood can return
explore_path_neighborhood(steps, context_budget, graphs, cfg) ==
    LET discovered_artists == insert_path_artists(steps, 0, EmptyMap)
        all_connections == collect_path_connections(steps, graphs, cfg)
        remaining_budget == saturating_sub(context_budget, Len(steps))
        context == [graphs |-> graphs, config |-> cfg, budget |-> context_budget,
                    path_length |-> Len(steps)]
    IN  IF remaining_budget = 0
        THEN { [discovered |-> discovered_artists, connections |-> all_connections] }
        ELSE { add_neighbors_to_discovered(
                   prioritized_neighbors, discovered_artists, all_connections, context) :
               prioritized_neighbors \in
                   prioritize_neighbors(
                       analyze_neighbor_connectivity(steps, all_connections)) }

\* EnhancedPathResult
NoResult ==
    [kind |-> "none", primary_path |-> <<>>, path_length |-> 0,
     minimum_budget_needed |-> 0, related_artists |-> EmptyMap,
     connections |-> EmptyMap, artists_visited |-> 0]

NoPath(artists_visited) == [NoResult EXCEPT !.kind = "NoPath",
                                            !.artists_visited = artists_visited]

PathTooLong(steps, artists_visited) ==
    [NoResult EXCEPT !.kind = "PathTooLong", !.primary_path = steps,
                     !.path_length = Len(steps),
                     !.minimum_budget_needed = Len(steps),
                     !.artists_visited = artists_visited]

Success(steps, explored, artists_visited) ==
    [NoResult EXCEPT !.kind = "Success", !.primary_path = steps,
                     !.related_artists = explored.discovered,
                     !.connections = explored.connections,
                     !.artists_visited = artists_visited]

\* mutant: a path of exactly budget artists is too long
handle_successful_path_at_budget(steps, context_budget, artists_visited, graphs, cfg) ==
    IF Len(steps) >= context_budget
    THEN { PathTooLong(steps, artists_visited) }
    ELSE { Success(steps, explored, artists_visited) :
           explored \in explore_path_neighborhood(steps, context_budget, graphs, cfg) }

\* the results handle_successful_path_generic can return
handle_successful_path_generic(steps, context_budget, artists_visited, graphs, cfg) ==
    LET path_length == Len(steps)
    IN  IF path_length > context_budget
        THEN { PathTooLong(steps, artists_visited) }
        ELSE { Success(steps, explored, artists_visited) :
               explored \in explore_path_neighborhood(steps, context_budget, graphs, cfg) }

\* variant: an entry is pushed without looking for its (from, to) among the
\* edges pushed so far
add_artist_edges_unchecked(list, from_id, discovered_ids, path_edges, pushed) ==
    LET adds(k) == /\ list[k][1] \in discovered_ids
                   /\ from_id # list[k][1]
                   /\ <<list[k][1], from_id>> \notin path_edges
        kept == SelectSeq([k \in 1..Len(list) |-> k], adds)
    IN  pushed \o [k \in 1..Len(kept) |-> <<from_id, list[kept[k]][1], list[kept[k]][2]>>]

\* The inner loop of build_graph_edges over one artist's list: an entry is
\* pushed when it names another discovered artist, no edge with its
\* (from, to) has been pushed yet, and it is not a path edge turned round
RECURSIVE add_artist_edges(_, _, _, _, _)
add_artist_edges(list, from_id, discovered_ids, path_edges, pushed) ==
    IF list = <<>> THEN pushed
    ELSE LET to_id == Head(list)[1]
             similarity == Head(list)[2]
             already_exists == \E k \in DOMAIN pushed :
                                  pushed[k][1] = from_id /\ pushed[k][2] = to_id
             is_reverse_of_path == <<to_id, from_id>> \in path_edges
         IN  add_artist_edges(
                 Tail(list), from_id, discovered_ids, path_edges,
                 IF /\ to_id \in discovered_ids
                    /\ from_id # to_id
                    /\ ~already_exists
                    /\ ~is_reverse_of_path
                 THEN Append(pushed, <<from_id, to_id, similarity>>)
                 ELSE pushed)

\* The outer loop of build_graph_edges: the keys of connections in the order
\* the hash map yields them
RECURSIVE add_neighborhood_edges(_, _, _, _, _)
add_neighborhood_edges(order, k, path_connections, path_edges, pushed) ==
    IF k > Len(order) THEN pushed
    ELSE add_neighborhood_edges(
             order, k + 1, path_connections, path_edges,
             IF order[k] \in DOMAIN path_connections
             THEN add_artist_edges(path_connections[order[k]], order[k],
                                   DOMAIN path_connections, path_edges, pushed)
             ELSE pushed)

\* build_graph_edges of the path response: the Vec of <<from, to, similarity>>
\* it returns, the path edges first
path_build_graph_edges(path_connections, primary_path, order) ==
    LET windows == 1..(Len(primary_path) - 1)
        path_edges == { <<primary_path[i][1], primary_path[i + 1][1]>> : i \in windows }
        from_path == [i \in windows |->
                         <<primary_path[i][1], primary_path[i + 1][1], primary_path[i + 1][2]>>]
    IN  add_neighborhood_edges(order, 1, path_connections, path_edges, from_path)

\* ------------------------------------------------------------ name lookup
\* strings are sequences of Unicode code points
LatinCapitalE == 69
LatinSmallE == 101
LatinSmallEAcute == 233
Space == 32
NoBreakSpace == 160
HanZhong == 20013

\* unidecode of one character: ASCII stays, the rest is spelled in ASCII
\* ("Zhong " of U+4E2D ends in a space)
unidecode_char(c) ==
    CASE c = LatinSmallEAcute -> << LatinSmallE >>
      [] c = NoBreakSpace -> << Space >>
      [] c = HanZhong -> << 90, 104, 111, 110, 103, Space >>
      [] OTHER -> << c >>

RECURSIVE unidecode(_)
unidecode(input) ==
    IF Len(input) = 0 THEN <<>>
    ELSE unidecode_char(input[1]) \o unidecode(Tail(input))

\* char::is_whitespace, on the characters of the alphabet
is_whitespace(c) == c \in {Space, NoBreakSpace} \cup 9..13

RECURSIVE trim_start(_)
trim_start(s) ==
    IF Len(s) > 0 /\ is_whitespace(s[1]) THEN trim_start(Tail(s)) ELSE s

RECURSIVE trim_end(_)
trim_end(s) ==
    IF Len(s) > 0 /\ is_whitespace(s[Len(s)])
    THEN trim_end(SubSeq(s, 1, Len(s) - 1)) ELSE s

trim(s) == trim_end(trim_start(s))

\* char::to_lowercase: A-Z change, the other characters of the alphabet stay
char_to_lowercase(c) == IF c \in 65..90 THEN c + 32 ELSE c

to_lowercase(s) == [i \in 1..Len(s) |-> char_to_lowercase(s[i])]

\* str::split_whitespace: the maximal runs of characters that are not whitespace
RECURSIVE split_whitespace(_)
split_whitespace(s) ==
    LET rest == trim_start(s)
        ends == { i \in 1..Len(rest) : is_whitespace(rest[i]) }
        stop == IF ends = {} THEN Len(rest) + 1 ELSE MinOfSet(ends)
    IN  IF Len(rest) = 0 THEN <<>>
        ELSE << SubSeq(rest, 1, stop - 1) >>
             \o split_whitespace(SubSeq(rest, stop, Len(rest)))

RECURSIVE join(_, _)
join(words, separator) ==
    IF Len(words) = 0 THEN <<>>
    ELSE IF Len(words) = 1 THEN words[1]
    ELSE words[1] \o separator \o join(Tail(words), separator)

\* clean_str with the transliteration moved behind the other steps
clean_str_transliterate_last(input) ==
    unidecode(join(split_whitespace(to_lowercase(trim(input))), << Space >>))

clean_str(input) ==
    join(split_whitespace(to_lowercase(trim(unidecode(input)))), << Space >>)

Ok(id) == [ok |-> TRUE, id |-> id]
NotFound == [ok |-> FALSE, id |-> 0]

\* parsing::find_artist_id
find_artist_id(name, lookup) ==
    LET clean_name == clean_str(name)
    IN  IF clean_name \in DOMAIN lookup /\ Len(lookup[clean_name]) > 0
        THEN Ok(lookup[clean_name][1])
        ELSE NotFound

\* search::find_best_artist_match
find_best_artist_match(name, lookup, metadata) ==
    LET lowercase_query == to_lowercase(name)
        clean_query == clean_str(name)
    IN  IF clean_query \notin DOMAIN lookup THEN NotFound
        ELSE LET artist_ids == lookup[clean_query]
                 exact == { i \in 1..Len(artist_ids) :
                              /\ artist_ids[i] \in DOMAIN metadata
                              /\ to_lowercase(metadata[artist_ids[i]]) = lowercase_query }
             IN  IF Len(artist_ids) = 0 THEN NotFound
                 ELSE IF Len(artist_ids) = 1 THEN Ok(artist_ids[1])
                 ELSE IF exact # {} THEN Ok(artist_ids[MinOfSet(exact)])
                 ELSE Ok(artist_ids[1])

\* ------------------------------------------------------ ego-graph explorer
\* Iterator::take
take(list, n) == SubSeq(list, 1, Min(n, Len(list)))

\* get_cached_connections: the cache changes no list, it saves the second read
get_cached_connections(artist, data, index, cfg, max_relations) ==
    take(get_artist_connections(artist, data, index, cfg), max_relations)

\* should_add_artist without its budget test
should_add_artist_over_budget(discovered, artist, explore_budget, known) ==
    /\ artist \notin DOMAIN discovered
    /\ artist \in known

\* should_add_artist; known is the key set the explorer asks (the graph index
\* in the core, the artist metadata in the web backend)
should_add_artist(discovered, artist, explore_budget, known) ==
    /\ artist \notin DOMAIN discovered
    /\ artist \in known
    /\ Cardinality(DOMAIN discovered) < explore_budget


\* variant: a new artist is recorded and queued with the layer of the artist
\* that listed it
RECURSIVE add_connected_artists_same_layer(_, _, _, _, _)
add_connected_artists_same_layer(conns, current_layer, explore_budget, known, acc) ==
    IF Len(conns) = 0 THEN acc
    ELSE add_connected_artists_same_layer(
             Tail(conns), current_layer, explore_budget, known,
             IF should_add_artist(acc.discovered, conns[1][1], explore_budget, known)
             THEN [discovered |-> MapInsert(acc.discovered, conns[1][1],
                                            <<conns[1][2], current_layer>>),
                   queue |-> Append(acc.queue, <<conns[1][1], current_layer>>)]
             ELSE acc)

\* `for (connected_id, similarity) in connections` of the BFS explorers
RECURSIVE add_connected_artists(_, _, _, _, _)
add_connected_artists(conns, current_layer, explore_budget, known, acc) ==
    IF Len(conns) = 0 THEN acc
    ELSE add_connected_artists(
             Tail(conns), current_layer, explore_budget, known,
             IF should_add_artist(acc.discovered, conns[1][1], explore_budget, known)
             THEN [discovered |-> MapInsert(acc.discovered, conns[1][1],
                                            <<conns[1][2], current_layer + 1>>),
                   queue |-> Append(acc.queue, <<conns[1][1], current_layer + 1>>)]
             ELSE acc)

\* the while loop of discover_artists
RECURSIVE discover_loop(_, _, _, _, _, _, _)
discover_loop(queue, discovered, explore_budget, known, data, index, cfg) ==
    IF Len(queue) = 0 \/ Cardinality(DOMAIN discovered) >= explore_budget
    THEN discovered
    ELSE LET current_id == queue[1][1]
             current_layer == queue[1][2]
             acc == add_connected_artists(
                        get_cached_connections(current_id, data, index, cfg,
                                               cfg.top_related),
                        current_layer, explore_budget, known,
                        [discovered |-> discovered, queue |-> Tail(queue)])
         IN  discover_loop(acc.queue, acc.discovered, explore_budget, known,
                           data, index, cfg)

\* BfsExplorer::discover_artists; the center counts as similarity 1.0, layer 0
discover_artists(center, explore_budget, known, data, index, cfg) ==
    discover_loop(<< <<center, 0>> >>, MapInsert(EmptyMap, center, <<SimOne, 0>>),
                  explore_budget, known, data, index, cfg)

\* get_all_connections
get_all_connections(discovered, data, index, cfg) ==
    [a \in DOMAIN discovered |->
        get_cached_connections(a, data, index, cfg, cfg.top_related)]

\* ExplorationResult
ExplorationResult(discovered, all_connections, artists_visited) ==
    [discovered_artists |-> discovered, connections |-> all_connections,
     artists_visited |-> artists_visited]

NoExploration == ExplorationResult(EmptyMap, EmptyMap, 0)

\* explore_bfs: every discovered artist is read once
explore_bfs(center, explore_budget, data, index, cfg) ==
    LET discovered == discover_artists(center, explore_budget, DOMAIN index,
                                       data, index, cfg)
    IN  ExplorationResult(discovered, get_all_connections(discovered, data, index, cfg),
                          Cardinality(DOMAIN discovered))

\* `1 + (cost * 5.0) as usize`, cost in quarters
layer_of_cost(cost) == 1 + ((cost * 5) \div SimOne)

\* "Visit neighbors" of explore_dijkstra
RECURSIVE explore_visit_neighbors(_, _, _, _, _)
explore_visit_neighbors(conns, cost, center, visited_set, acc) ==
    IF Len(conns) = 0 THEN acc
    ELSE LET neighbor == conns[1][1]
             similarity == conns[1][2]
             new_cost == cost + (SimOne - similarity)
             is_better_path == IF neighbor \in DOMAIN acc.distances
                               THEN new_cost < acc.distances[neighbor]
                               ELSE TRUE
         IN  explore_visit_neighbors(
                 Tail(conns), cost, center, visited_set,
                 IF neighbor \in visited_set \/ ~is_better_path
                 THEN acc
                 ELSE [distances |-> MapInsert(acc.distances, neighbor, new_cost),
                       heap |-> heap_push(acc.heap, <<new_cost, neighbor>>),
                       discovered |->
                           MapInsert(acc.discovered, neighbor,
                                     <<similarity,
                                       IF neighbor = center THEN 0
                                       ELSE layer_of_cost(new_cost)>>)])

\* the budget-th smallest of the distances (sorted_costs.get(budget - 1))
budget_threshold(distances, explore_budget) ==
    CHOOSE c \in { distances[a] : a \in DOMAIN distances } :
        /\ Cardinality({ a \in DOMAIN distances : distances[a] < c }) < explore_budget
        /\ Cardinality({ a \in DOMAIN distances : distances[a] <= c }) >= explore_budget

\* the `while let Some(..) = heap.pop()` loop of explore_dijkstra
RECURSIVE explore_dijkstra_loop(_, _, _, _, _, _, _, _, _)
explore_dijkstra_loop(heap, distances, discovered, visited_set, center, explore_budget, data, index, cfg) ==
    IF Len(heap) = 0
    THEN [distances |-> distances, visited |-> visited_set]
    ELSE LET popped == heap_pop(heap)
             cost == popped.item[1]
             current_artist == popped.item[2]
         IN  IF /\ Cardinality(DOMAIN discovered) >= explore_budget
                /\ cost > budget_threshold(distances, explore_budget)
             THEN [distances |-> distances, visited |-> visited_set]
             ELSE IF current_artist \in visited_set
             THEN explore_dijkstra_loop(popped.data, distances, discovered, visited_set,
                                        center, explore_budget, data, index, cfg)
             ELSE LET acc == explore_visit_neighbors(
                                 get_cached_connections(current_artist, data, index, cfg,
                                                        cfg.top_related),
                                 cost, center, visited_set \cup {current_artist},
                                 [distances |-> distances, heap |-> popped.data,
                                  discovered |-> discovered])
                  IN  explore_dijkstra_loop(acc.heap, acc.distances, acc.discovered,
                                            visited_set \cup {current_artist},
                                            center, explore_budget, data, index, cfg)

\* the maps select_optimal_subset can return: the `budget` cheapest artists,
\* artists of equal cost taken in the iteration order of the hash map, which
\* is any order
select_optimal_subset(center, distances, explore_budget) ==
    LET ids == DOMAIN distances
        n == Min(explore_budget, Cardinality(ids))
    IN  { [a \in selected |->
              IF a = center THEN <<SimOne, 0>>
              ELSE <<SimOne - distances[a], layer_of_cost(distances[a])>>] :
          selected \in { S \in SUBSET ids :
                           /\ Cardinality(S) = n
                           /\ \A a \in S, b \in ids \ S : distances[a] <= distances[b] } }

\* the results explore_dijkstra can return
explore_dijkstra(center, explore_budget, data, index, cfg) ==
    LET search == explore_dijkstra_loop(
                      heap_push(<<>>, <<0, center>>), MapInsert(EmptyMap, center, 0),
                      MapInsert(EmptyMap, center, <<SimOne, 0>>), {},
                      center, explore_budget, data, index, cfg)
    IN  { ExplorationResult(
              optimal_discovered,
              [a \in DOMAIN optimal_discovered \cap search.visited |->
                  SelectSeq(get_cached_connections(a, data, index, cfg, cfg.top_related),
                            LAMBDA c : c[1] \in DOMAIN optimal_discovered)],
              Cardinality(search.visited)) :
          optimal_discovered \in
              select_optimal_subset(center, search.distances, explore_budget) }

\* build_graph_edges without its test of the far end
explore_build_graph_edges_unfiltered(discovered, all_connections) ==
    UNION { { <<from_id, all_connections[from_id][i][1], all_connections[from_id][i][2]>> :
              i \in 1..Len(all_connections[from_id]) } :
            from_id \in DOMAIN all_connections }

\* ArtistExplorer::build_graph_edges, as the set of the edges it emits
explore_build_graph_edges(discovered, all_connections) ==
    LET discovered_ids == DOMAIN discovered
    IN  { e \in UNION { { <<from_id, all_connections[from_id][i][1],
                            all_connections[from_id][i][2]>> :
                          i \in 1..Len(all_connections[from_id]) } :
                        from_id \in DOMAIN all_connections } :
            e[2] \in discovered_ids /\ e[1] # e[2] }

\* ArtistExplorer::explore_as_graph behind the check of
\* explore_artist_network_graph that the center is a known artist
explore_artist_network_graph(center, explore_budget, metadata, data, index, cfg) ==
    IF center \notin metadata
    THEN [exploration |-> NoExploration, edges |-> {}]
    ELSE LET discovered == discover_artists(center, explore_budget, metadata,
                                            data, index, cfg)
             all_connections == get_all_connections(discovered, data, index, cfg)
         IN  [exploration |-> ExplorationResult(discovered, all_connections,
                                                Cardinality(DOMAIN discovered)),
              edges |-> explore_build_graph_edges(discovered, all_connections)]

\* ----------------------------------------------------------------- inputs
\* similarity thresholds and per-artist caps a query is run with; a cap of
\* NumArtists cuts no edge list
MinMatches == {0, 2}
TopRelateds == {1, NumArtists}

Pairs == {p \in Artists \X Artists : p[1] # p[2]}

\* the edge list stored under artist a, by ascending id of the other end:
\* its out-edges in the forward file, its in-edges in the reverse file
RECURSIVE AdjacencyList(_, _, _, _, _)
AdjacencyList(E, w, a, v, forward) ==
    IF v > NumArtists THEN <<>>
    ELSE LET pair == IF forward THEN <<a, v>> ELSE <<v, a>>
         IN  (IF pair \in E THEN << <<v, w[pair]>> >> ELSE <<>>)
             \o AdjacencyList(E, w, a, v + 1, forward)

ForwardAdjacency(E, w) == [a \in Artists |-> AdjacencyList(E, w, a, 1, TRUE)]
ReverseAdjacency(E, w) == [a \in Artists |-> AdjacencyList(E, w, a, 1, FALSE)]

\* The order in which an FxHashMap keyed by artist yields its entries.
\* FxHasher has no random state, so the order is the same for every map of a
\* build; which order it is depends on the hasher and the table layout.
AscendingOrder == [i \in 1..NumArtists |-> i]
DescendingOrder == [i \in 1..NumArtists |-> NumArtists + 1 - i]

\* CacheStorage::new: an empty cache, no cache file yet, the dirty flag down,
\* no insert under way and the writer task waiting for its first tick
MaxHandlers == 2
Handlers == 1..MaxHandlers
Resting == [pc |-> "idle", artist_id |-> 0]

StorageNew ==
    /\ cache = [k \in {} |-> 0]
    /\ cache_file = [k \in {} |-> 0]
    /\ dirty = FALSE
    /\ insert_pc = [h \in Handlers |-> Resting]
    /\ writer_pc = "tick"


SearchIdle ==
    /\ forward_queue = <<>> /\ reverse_queue = <<>>
    /\ forward_visited = {} /\ reverse_visited = {}
    /\ forward_queued = {} /\ reverse_queued = {}
    /\ forward_parent = EmptyMap /\ reverse_parent = EmptyMap
    /\ visited = {}
    /\ forward_state = DijkstraState_new(0)
    /\ reverse_state = DijkstraState_new(0)
    /\ forward_finished = FALSE
    /\ all_visited = {}
    /\ path = None

LookupIdle ==
    /\ artist1 = <<>>
    /\ app_name_lookup = EmptyMap
    /\ app_artist_metadata = EmptyMap
    /\ resolved = NotFound
    /\ cleaned = <<>>

ContextIdle ==
    /\ budget = 0
    /\ result = NoResult
    /\ edges = {}
    /\ exploration = NoExploration

\* a query on a graph of at most MaxEdges edges whose reverse file is the
\* transpose of its forward file; the files hold a record for every artist, or
\* only for the artists that have edges
Init ==
    /\ \E E \in SUBSET Pairs, sparse \in BOOLEAN :
          /\ Cardinality(E) <= MaxEdges
          /\ \E w \in [E -> Sims] :
                LET forward == ForwardAdjacency(E, w)
                    reverse == ReverseAdjacency(E, w)
                IN  /\ forward_graph_data = WriteGraph(forward, NumArtists, sparse)
                    /\ forward_graph_index = WriteIndex(forward, sparse)
                    /\ reverse_graph_data = WriteGraph(reverse, NumArtists, sparse)
                    /\ reverse_graph_index = WriteIndex(reverse, sparse)
    /\ algorithm \in {"bfs", "dijkstra"}
    /\ start \in Artists
    /\ target \in Artists
    /\ config \in [min_match : MinMatches, top_related : TopRelateds]
    /\ pc = "call"
    /\ SearchIdle
    /\ ContextIdle
    /\ LookupIdle
    /\ previous = NoPrevious
    /\ artist_id = 0
    /\ fx_order = AscendingOrder
    /\ StorageNew
    /\ connections = <<>>

\* ---------------------------------------------------------------- actions
\* BfsState::new and the initialisation of find_path_to_target
bfs_find_path ==
    /\ pc = "call"
    /\ algorithm = "bfs"
    /\ forward_queue' = <<start>>
    /\ forward_queued' = {start}
    /\ reverse_queue' = <<target>>
    /\ reverse_queued' = {target}
    /\ visited' = {}
    /\ pc' = "forward"
    /\ UNCHANGED << inputs, forward_visited, reverse_visited, forward_parent,
                    reverse_parent, dijkstra_vars, path, outside_search >>

\* the forward side without its test for the reverse side
bfs_forward_without_meeting ==
    /\ pc = "forward"
    /\ algorithm = "bfs"
    /\ ~(Len(forward_queue) = 0 /\ Len(reverse_queue) = 0)
    /\ LET r == bfs_expand(forward_queue, forward_visited, forward_queued,
                           forward_parent, {},
                           forward_graph_data, forward_graph_index)
       IN  /\ forward_queue' = r.queue
           /\ forward_visited' = r.visited
           /\ forward_queued' = r.queued
           /\ forward_parent' = r.parent
           /\ visited' = IF r.outcome \in {"met", "expanded"}
                         THEN visited \cup {r.current} ELSE visited
           /\ path' = IF r.outcome = "met"
                      THEN Some(reconstruct_bidirectional_path(
                               forward_parent, reverse_parent, start, target, r.current))
                      ELSE path
           /\ pc' = CASE r.outcome = "met" -> "done"
                      [] r.outcome = "skip" -> "forward"
                      [] OTHER -> "reverse"
    /\ UNCHANGED << inputs, reverse_queue, reverse_visited, reverse_queued,
                    reverse_parent, dijkstra_vars, outside_search >>

\* "Expand from forward direction"
bfs_forward ==
    /\ pc = "forward"
    /\ algorithm = "bfs"
    /\ ~(Len(forward_queue) = 0 /\ Len(reverse_queue) = 0)
    /\ LET r == bfs_expand(forward_queue, forward_visited, forward_queued,
                           forward_parent, reverse_visited,
                           forward_graph_data, forward_graph_index)
       IN  /\ forward_queue' = r.queue
           /\ forward_visited' = r.visited
           /\ forward_queued' = r.queued
           /\ forward_parent' = r.parent
           /\ visited' = IF r.outcome \in {"met", "expanded"}
                         THEN visited \cup {r.current} ELSE visited
           /\ path' = IF r.outcome = "met"
                      THEN Some(reconstruct_bidirectional_path(
                               forward_parent, reverse_parent, start, target, r.current))
                      ELSE path
           /\ pc' = CASE r.outcome = "met" -> "done"
                      [] r.outcome = "skip" -> "forward"
                      [] OTHER -> "reverse"
    /\ UNCHANGED << inputs, reverse_queue, reverse_visited, reverse_queued,
                    reverse_parent, dijkstra_vars, outside_search >>

\* "Expand from reverse direction"
bfs_reverse ==
    /\ pc = "reverse"
    /\ algorithm = "bfs"
    /\ LET r == bfs_expand(reverse_queue, reverse_visited, reverse_queued,
                           reverse_parent, forward_visited,
                           reverse_graph_data, reverse_graph_index)
       IN  /\ reverse_queue' = r.queue
           /\ reverse_visited' = r.visited
           /\ reverse_queued' = r.queued
           /\ reverse_parent' = r.parent
           /\ visited' = IF r.outcome \in {"met", "expanded"}
                         THEN visited \cup {r.current} ELSE visited
           /\ path' = IF r.outcome = "met"
                      THEN Some(reconstruct_bidirectional_path(
                               forward_parent, reverse_parent, start, target, r.current))
                      ELSE path
           /\ pc' = IF r.outcome = "met" THEN "done" ELSE "forward"
    /\ UNCHANGED << inputs, forward_queue, forward_visited, forward_queued,
                    forward_parent, dijkstra_vars, outside_search >>

\* the while condition fails: both queues are empty
bfs_no_path ==
    /\ pc = "forward"
    /\ algorithm = "bfs"
    /\ Len(forward_queue) = 0
    /\ Len(reverse_queue) = 0
    /\ path' = None
    /\ pc' = "done"
    /\ UNCHANGED << inputs, forward_queue, reverse_queue, forward_visited,
                    reverse_visited, forward_queued, reverse_queued, forward_parent,
                    reverse_parent, visited, dijkstra_vars, outside_search >>

\* dijkstra_find_path up to its loop
dijkstra_find_path ==
    /\ pc = "call"
    /\ algorithm = "dijkstra"
    /\ forward_state' = DijkstraState_new(start)
    /\ reverse_state' = DijkstraState_new(target)
    /\ all_visited' = {}
    /\ pc' = "forward"
    /\ UNCHANGED << inputs, bfs_vars, forward_finished, path, outside_search >>

\* "Process forward search"
dijkstra_forward ==
    /\ pc = "forward"
    /\ algorithm = "dijkstra"
    /\ LET r == dijkstra_expand(forward_state, reverse_state.visited,
                                forward_graph_data, forward_graph_index)
       IN  /\ forward_state' = r.state
           /\ forward_finished' = (r.outcome = "finished")
           /\ IF r.outcome = "met"
              THEN /\ path' = Some(reconstruct_bidirectional_dijkstra_path(
                                  forward_state.parent_map, reverse_state.parent_map,
                                  start, target, r.current))
                   /\ all_visited' = forward_state.visited \cup reverse_state.visited
                   /\ pc' = "done"
              ELSE /\ path' = path
                   /\ all_visited' = all_visited
                   /\ pc' = "reverse"
    /\ UNCHANGED << inputs, bfs_vars, reverse_state, outside_search >>

\* "Process reverse search" and the end of the loop body
dijkstra_reverse ==
    /\ pc = "reverse"
    /\ algorithm = "dijkstra"
    /\ LET r == dijkstra_expand(reverse_state, forward_state.visited,
                                reverse_graph_data, reverse_graph_index)
       IN  /\ reverse_state' = r.state
           /\ IF r.outcome = "met"
              THEN /\ path' = Some(reconstruct_bidirectional_dijkstra_path(
                                  forward_state.parent_map, reverse_state.parent_map,
                                  start, target, r.current))
                   /\ all_visited' = forward_state.visited \cup reverse_state.visited
                   /\ pc' = "done"
              ELSE IF forward_finished /\ r.outcome = "finished"
              THEN /\ path' = None
                   /\ all_visited' = forward_state.visited \cup reverse_state.visited
                   /\ pc' = "done"
              ELSE /\ path' = path
                   /\ all_visited' = all_visited
                   /\ pc' = "forward"
    /\ UNCHANGED << inputs, bfs_vars, forward_state, forward_finished, outside_search >>

Next ==
    \/ bfs_find_path
    \/ bfs_forward
    \/ bfs_reverse
    \/ bfs_no_path
    \/ dijkstra_find_path
    \/ dijkstra_forward
    \/ dijkstra_reverse

Spec == Init /\ [][Next]_vars

\* ------------------------------------------- the path with its context
\* the budgets a path is asked with
Budgets == 0..NumArtists

\* find_paths_with_exploration after the search has returned, and the edge
\* list find_enhanced_path_between_artists builds of a Success
find_paths_with_exploration ==
    /\ pc = "done"
    /\ \E b \in Budgets :
          LET artists_visited == IF algorithm = "bfs" THEN Cardinality(visited)
                                 ELSE Cardinality(all_visited)
              graphs == BiDirectionalGraphs(forward_graph_data, forward_graph_index,
                                            reverse_graph_data, reverse_graph_index)
          IN  /\ budget' = b
              /\ result' \in IF path.some
                              THEN handle_successful_path_generic(
                                       path.steps, b, artists_visited, graphs, config)
                              ELSE { NoPath(artists_visited) }
    /\ edges' = IF result'.kind = "Success"
                THEN path_build_graph_edges(result'.connections, result'.primary_path, fx_order)
                ELSE <<>>
    /\ pc' = "result"
    /\ UNCHANGED << inputs, storage_vars, bfs_vars, dijkstra_vars, path, accessor_vars, exploration, lookup_vars, previous >>

NextContext == Next \/ find_paths_with_exploration

SpecContext == Init /\ [][NextContext]_vars

\* ---------------------------------------------------------------------------
\* The same path-with-context query answered twice by one build: the
\* candidates that prioritize_neighbors compares Equal keep the order in
\* which neighbor_info.into_iter() yields them (sort_by is stable), and that
\* order is fx_order in both runs.
\* ---------------------------------------------------------------------------
PositionIn(order, a) == CHOOSE i \in DOMAIN order : order[i] = a

prioritize_neighbors_in(neighbor_info, order) ==
    { sorted \in prioritize_neighbors(neighbor_info) :
        \A i, j \in DOMAIN sorted :
            (/\ i < j
             /\ sorted[i][2] = sorted[j][2]
             /\ sorted[i][3] = sorted[j][3])
            => PositionIn(order, sorted[i][1]) < PositionIn(order, sorted[j][1]) }

explore_path_neighborhood_in(steps, context_budget, graphs, cfg, order) ==
    LET discovered_artists == insert_path_artists(steps, 0, EmptyMap)
        all_connections == collect_path_connections(steps, graphs, cfg)
        remaining_budget == saturating_sub(context_budget, Len(steps))
        context == [graphs |-> graphs, config |-> cfg, budget |-> context_budget,
                    path_length |-> Len(steps)]
    IN  IF remaining_budget = 0
        THEN { [discovered |-> discovered_artists, connections |-> all_connections] }
        ELSE { add_neighbors_to_discovered(
                   prioritized_neighbors, discovered_artists, all_connections, context) :
               prioritized_neighbors \in
                   prioritize_neighbors_in(
                       analyze_neighbor_connectivity(steps, all_connections), order) }

find_paths_with_exploration_in(b, order) ==
    LET artists_visited == IF algorithm = "bfs" THEN Cardinality(visited)
                           ELSE Cardinality(all_visited)
        graphs == BiDirectionalGraphs(forward_graph_data, forward_graph_index,
                                      reverse_graph_data, reverse_graph_index)
    IN  IF ~path.some THEN { NoPath(artists_visited) }
        ELSE IF Len(path.steps) > b THEN { PathTooLong(path.steps, artists_visited) }
        ELSE { Success(path.steps, explored, artists_visited) :
               explored \in explore_path_neighborhood_in(path.steps, b, graphs, config, order) }

InitOrdered ==
    /\ \E E \in SUBSET Pairs :
          /\ Cardinality(E) <= MaxEdges
          /\ \E w \in [E -> Sims] :
                LET forward == ForwardAdjacency(E, w)
                    reverse == ReverseAdjacency(E, w)
                IN  /\ forward_graph_data = WriteGraph(forward, NumArtists, FALSE)
                    /\ forward_graph_index = WriteIndex(forward, FALSE)
                    /\ reverse_graph_data = WriteGraph(reverse, NumArtists, FALSE)
                    /\ reverse_graph_index = WriteIndex(reverse, FALSE)
    /\ algorithm \in {"bfs", "dijkstra"}
    /\ start \in Artists
    /\ target \in Artists
    /\ config \in [min_match : MinMatches, top_related : TopRelateds]
    /\ fx_order \in {AscendingOrder, DescendingOrder}
    /\ StorageNew
    /\ pc = "call"
    /\ SearchIdle
    /\ ContextIdle
    /\ LookupIdle
    /\ previous = NoPrevious
    /\ artist_id = 0
    /\ connections = <<>>

\* the first answer to the query
find_paths_with_exploration_first ==
    /\ pc = "done"
    /\ \E b \in Budgets :
          /\ budget' = b
          /\ result' \in find_paths_with_exploration_in(b, fx_order)
    /\ edges' = IF result'.kind = "Success"
                THEN path_build_graph_edges(result'.connections, result'.primary_path, fx_order)
                ELSE <<>>
    /\ pc' = "result"
    /\ UNCHANGED << inputs, storage_vars, bfs_vars, dijkstra_vars, path, accessor_vars, exploration, lookup_vars, previous >>

\* the same query with the same budget once more; the search is a function
\* of its inputs (SpecAgain), so the second run starts from the same path
find_paths_with_exploration_again ==
    /\ pc = "result"
    /\ previous = NoPrevious
    /\ previous' = [kind |-> "context", path |-> path, artists_visited |-> 0, result |-> result]
    /\ result' \in find_paths_with_exploration_in(budget, fx_order)
    /\ edges' = IF result'.kind = "Success"
                THEN path_build_graph_edges(result'.connections, result'.primary_path, fx_order)
                ELSE <<>>
    /\ pc' = "again"
    /\ UNCHANGED << inputs, storage_vars, bfs_vars, dijkstra_vars, path, accessor_vars, budget, exploration, lookup_vars >>

NextOrdered ==
    \/ Next
    \/ find_paths_with_exploration_first
    \/ find_paths_with_exploration_again

SpecOrdered == InitOrdered /\ [][NextOrdered]_vars

\* ------------------------------------------------------- the query again
\* the caller keeps what find_path returned and calls it again with the
\* same arguments; every call builds its search state anew
find_path_again ==
    /\ pc = "done"
    /\ previous = NoPrevious
    /\ previous' = [kind |-> "returned", path |-> path,
                    artists_visited |-> IF algorithm = "bfs" THEN Cardinality(visited)
                                        ELSE Cardinality(all_visited)]
    /\ forward_queue' = <<>> /\ reverse_queue' = <<>>
    /\ forward_visited' = {} /\ reverse_visited' = {}
    /\ forward_queued' = {} /\ reverse_queued' = {}
    /\ forward_parent' = EmptyMap /\ reverse_parent' = EmptyMap
    /\ visited' = {}
    /\ forward_state' = DijkstraState_new(0)
    /\ reverse_state' = DijkstraState_new(0)
    /\ forward_finished' = FALSE
    /\ all_visited' = {}
    /\ path' = None
    /\ pc' = "call"
    /\ UNCHANGED << inputs, storage_vars, accessor_vars, context_vars, lookup_vars >>

NextAgain == Next \/ find_path_again

SpecAgain == Init /\ [][NextAgain]_vars

\* ---------------------------------------------------------------------------
\* Searches over a forward and a reverse file that were not written from the
\* same edges.  find_path takes the two files as independent arguments, and
\* the repository's tests pair a populated forward file with an empty reverse
\* file and an empty reverse index (create_empty_reverse_file).
\* ---------------------------------------------------------------------------
InitMismatch ==
    /\ \E E \in SUBSET Pairs, sparse \in BOOLEAN, kept \in {"both", "forward", "reverse"} :
          /\ Cardinality(E) <= MaxEdges
          \* a dense pair written from the same edges indexes every artist
          \* on both sides and is covered by Init
          /\ kept = "both" => sparse
          /\ \E w \in [E -> Sims] :
                LET forward == ForwardAdjacency(E, w)
                    reverse == ReverseAdjacency(E, w)
                IN  /\ forward_graph_data =
                          IF kept = "reverse" THEN <<>>
                          ELSE WriteGraph(forward, NumArtists, sparse)
                    /\ forward_graph_index =
                          IF kept = "reverse" THEN EmptyMap
                          ELSE WriteIndex(forward, sparse)
                    /\ reverse_graph_data =
                          IF kept = "forward" THEN <<>>
                          ELSE WriteGraph(reverse, NumArtists, sparse)
                    /\ reverse_graph_index =
                          IF kept = "forward" THEN EmptyMap
                          ELSE WriteIndex(reverse, sparse)
    /\ algorithm \in {"bfs", "dijkstra"}
    /\ start \in Artists
    /\ target \in Artists
    /\ config \in [min_match : MinMatches, top_related : TopRelateds]
    /\ pc = "call"
    /\ SearchIdle
    /\ ContextIdle
    /\ LookupIdle
    /\ previous = NoPrevious
    /\ artist_id = 0
    /\ fx_order = AscendingOrder
    /\ StorageNew
    /\ connections = <<>>

SpecMismatch == InitMismatch /\ [][Next]_vars

\* --------------------------------------------------- ego-graph exploration
\* budgets of an exploration; budget - 1 of the Dijkstra explorer needs one
ExploreBudgets == 1..NumArtists

\* the artist tables the web backend can hold: every artist, or the indexed
KnownArtists == {Artists, DOMAIN forward_graph_index}

\* explore_bfs(center_id, budget, max_relations, min_similarity, ..)
explore_bfs_call ==
    /\ pc = "call"
    /\ \E b \in ExploreBudgets :
          /\ budget' = b
          /\ exploration' = explore_bfs(start, b, forward_graph_data,
                                        forward_graph_index, config)
    /\ pc' = "explore_bfs"
    /\ UNCHANGED << inputs, storage_vars, bfs_vars, dijkstra_vars, path, accessor_vars, result, edges, lookup_vars, previous >>

\* explore_dijkstra(center_id, budget, max_relations, min_similarity, ..)
explore_dijkstra_call ==
    /\ pc = "call"
    /\ \E b \in ExploreBudgets :
          /\ budget' = b
          /\ exploration' \in explore_dijkstra(start, b, forward_graph_data,
                                               forward_graph_index, config)
    /\ pc' = "explore_dijkstra"
    /\ UNCHANGED << inputs, storage_vars, bfs_vars, dijkstra_vars, path, accessor_vars, result, edges, lookup_vars, previous >>

\* explore_artist_network_graph of the web backend
explore_artist_network_graph_call ==
    /\ pc = "call"
    /\ \E b \in ExploreBudgets, artist_metadata \in KnownArtists :
          LET response == explore_artist_network_graph(
                              start, b, artist_metadata, forward_graph_data,
                              forward_graph_index, config)
          IN  /\ budget' = b
              /\ exploration' = response.exploration
              /\ edges' = response.edges
    /\ pc' = "explore_graph"
    /\ UNCHANGED << inputs, storage_vars, bfs_vars, dijkstra_vars, path, accessor_vars, result, lookup_vars, previous >>

NextExplore ==
    \/ explore_bfs_call
    \/ explore_dijkstra_call
    \/ explore_artist_network_graph_call

SpecExplore == Init /\ [][NextExplore]_vars

\* ---------------------------------------------------------------------------
\* explore_dijkstra over graphs that hold edges of similarity 1.0 (weight 0)
\* beside weaker ones, called with min_similarity 0 or with a min_similarity
\* that the stronger edges pass.
\* ---------------------------------------------------------------------------
ExploreSims == Sims \cup {SimOne}
ExploreMinSimilarities == {0, MaxOfSet(Sims)}

InitWeighted ==
    /\ \E E \in SUBSET Pairs, sparse \in BOOLEAN :
          /\ Cardinality(E) <= MaxEdges
          /\ \E w \in [E -> ExploreSims] :
                LET forward == ForwardAdjacency(E, w)
                    reverse == ReverseAdjacency(E, w)
                IN  /\ forward_graph_data = WriteGraph(forward, NumArtists, sparse)
                    /\ forward_graph_index = WriteIndex(forward, sparse)
                    /\ reverse_graph_data = WriteGraph(reverse, NumArtists, sparse)
                    /\ reverse_graph_index = WriteIndex(reverse, sparse)
    /\ algorithm = "dijkstra"
    /\ start \in Artists
    /\ target = start
    /\ config \in [min_match : ExploreMinSimilarities, top_related : TopRelateds]
    /\ pc = "call"
    /\ SearchIdle
    /\ ContextIdle
    /\ LookupIdle
    /\ previous = NoPrevious
    /\ artist_id = 0
    /\ fx_order = AscendingOrder
    /\ StorageNew
    /\ connections = <<>>

NextWeighted == explore_dijkstra_call

SpecWeighted == InitWeighted /\ [][NextWeighted]_vars

\* ----------------------------------------------------- emitted edge lists
\* graph files whose edge lists may name the artist they belong to; neither
\* the file format nor the accessor excludes such an entry
LoopPairs == Artists \X Artists

InitGraph ==
    /\ \E E \in SUBSET LoopPairs :
          /\ Cardinality(E) <= MaxEdges
          /\ \E p \in E : p[1] = p[2]
          /\ \E w \in [E -> Sims] :
                LET forward == ForwardAdjacency(E, w)
                    reverse == ReverseAdjacency(E, w)
                IN  /\ forward_graph_data = WriteGraph(forward, NumArtists, TRUE)
                    /\ forward_graph_index = WriteIndex(forward, TRUE)
                    /\ reverse_graph_data = WriteGraph(reverse, NumArtists, TRUE)
                    /\ reverse_graph_index = WriteIndex(reverse, TRUE)
    /\ algorithm \in {"bfs", "dijkstra"}
    /\ start \in Artists
    /\ target \in Artists
    /\ config \in [min_match : MinMatches, top_related : {NumArtists}]
    /\ pc = "call"
    /\ SearchIdle
    /\ ContextIdle
    /\ LookupIdle
    /\ previous = NoPrevious
    /\ artist_id = 0
    /\ fx_order = AscendingOrder
    /\ StorageNew
    /\ connections = <<>>

NextGraph == NextContext \/ explore_artist_network_graph_call

SpecGraph == InitGraph /\ [][NextGraph]_vars

\* ----------------------------------------------------------- name lookup
MaxNameLen == 3

Chars == {LatinCapitalE, LatinSmallE, LatinSmallEAcute, Space, NoBreakSpace, HanZhong}

Strings == UNION { [1..n -> Chars] : n \in 0..MaxNameLen }

\* display names of the artist table; three of them normalize to "e"
DisplayNames == { << LatinCapitalE >>, << LatinSmallE >>, << LatinSmallEAcute >>, << HanZhong >> }

\* the artists of the table; all of them can carry one normalized name
Homonyms == {1, 2, 3}

RECURSIVE ListOf(_, _)
ListOf(S, descending) ==
    IF S = {} THEN <<>>
    ELSE LET x == IF descending THEN MaxOfSet(S) ELSE MinOfSet(S)
         IN  << x >> \o ListOf(S \ {x}, descending)

\* the lookup section of a metadata file: under every normalized name the
\* artists that carry it, listed in either order
NameLookup(names, descending) ==
    [k \in { clean_str(names[a]) : a \in DOMAIN names } |->
        ListOf({ a \in DOMAIN names : clean_str(names[a]) = k }, descending)]

InitLookup ==
    /\ artist1 \in Strings
    /\ \E names \in [Homonyms -> DisplayNames], descending \in BOOLEAN :
          /\ app_artist_metadata = names
          /\ app_name_lookup = NameLookup(names, descending)
    /\ resolved = NotFound
    /\ cleaned = <<>>
    /\ pc = "lookup"
    /\ previous = NoPrevious
    /\ algorithm = "none"
    /\ start = 0
    /\ target = 0
    /\ config = [min_match |-> 0, top_related |-> 0]
    /\ forward_graph_data = <<>>
    /\ forward_graph_index = EmptyMap
    /\ reverse_graph_data = <<>>
    /\ reverse_graph_index = EmptyMap
    /\ SearchIdle
    /\ ContextIdle
    /\ artist_id = 0
    /\ fx_order = AscendingOrder
    /\ StorageNew
    /\ connections = <<>>

clean_str_call ==
    /\ pc = "lookup"
    /\ cleaned' = clean_str(artist1)
    /\ pc' = "clean_str"
    /\ UNCHANGED << inputs, storage_vars, bfs_vars, dijkstra_vars, path, accessor_vars, context_vars, previous >>
    /\ UNCHANGED << artist1, app_name_lookup, app_artist_metadata, resolved >>

find_best_artist_match_call ==
    /\ pc = "lookup"
    /\ resolved' = find_best_artist_match(artist1, app_name_lookup, app_artist_metadata)
    /\ pc' = "find_best_artist_match"
    /\ UNCHANGED << inputs, storage_vars, bfs_vars, dijkstra_vars, path, accessor_vars, context_vars, previous >>
    /\ UNCHANGED << artist1, app_name_lookup, app_artist_metadata, cleaned >>

find_artist_id_call ==
    /\ pc = "lookup"
    /\ resolved' = find_artist_id(artist1, app_name_lookup)
    /\ pc' = "find_artist_id"
    /\ UNCHANGED << inputs, storage_vars, bfs_vars, dijkstra_vars, path, accessor_vars, context_vars, previous >>
    /\ UNCHANGED << artist1, app_name_lookup, app_artist_metadata, cleaned >>

NextLookup ==
    \/ clean_str_call
    \/ find_best_artist_match_call
    \/ find_artist_id_call

SpecLookup == InitLookup /\ [][NextLookup]_vars

\* ------------------------------------------------- the accessor alone
AccessorSims == {1, 2, 3}
AccessorMinMatches == {0, 2, 3}

\* the artists a record of artist 1 names
Neighbours == {2, 3}

\* edge lists of at most MaxConnections entries, ties and repeats included
ConnectionLists ==
    UNION { [1..n -> Neighbours \X AccessorSims] : n \in 0..MaxConnections }

\* n edges of similarity 0.5
PlainList(n) == [i \in 1..n |-> <<2 + (i % 2), 2>>]

\* the file: the record of artist 2, which has no edges, then that of artist 1
AccessorFile(list) == WriteRecord(2, <<>>) \o WriteRecord(1, list)

AccessorIdle ==
    /\ algorithm = "none"
    /\ start = 0
    /\ target = 0
    /\ reverse_graph_data = <<>>
    /\ reverse_graph_index = EmptyMap
    /\ SearchIdle
    /\ ContextIdle
    /\ LookupIdle
    /\ previous = NoPrevious
    /\ fx_order = AscendingOrder
    /\ StorageNew
    /\ connections = <<>>
    /\ pc = "accessor"

\* get_artist_connections is asked for artist 1: on a file as written, under
\* every config; and under the default filter on a file cut short at any byte,
\* with artist 1 missing from the index or indexed at its record, at the other
\* record, or at or past the end of the file
InitAccessor ==
    /\ artist_id = 1
    /\ \/ \E list \in ConnectionLists :
             /\ forward_graph_data = AccessorFile(list)
             /\ forward_graph_index = (1 :> RecordLen(<<>>)) @@ (2 :> 0)
             /\ config \in [min_match : AccessorMinMatches,
                            top_related : 0..MaxConnections]
       \/ \E n \in 0..MaxConnections :
             LET file == AccessorFile(PlainList(n))
             IN  /\ \E cut \in 0..Len(file) : forward_graph_data = SubSeq(file, 1, cut)
                 /\ \E position \in {0, RecordLen(<<>>), Len(file), Len(file) + 1} :
                        forward_graph_index \in {(2 :> 0), (1 :> position) @@ (2 :> 0)}
                 /\ config = [min_match |-> 0, top_related |-> MaxConnections]
    /\ AccessorIdle

get_artist_connections_call ==
    /\ pc = "accessor"
    /\ connections' = get_artist_connections(artist_id, forward_graph_data,
                                             forward_graph_index, config)
    /\ pc' = "accessed"
    /\ UNCHANGED << inputs, storage_vars, bfs_vars, dijkstra_vars, path, artist_id, context_vars, lookup_vars, previous >>

NextAccessor == get_artist_connections_call

SpecAccessor == InitAccessor /\ [][NextAccessor]_vars

\* ---------------------------------------------------------------------------
\* The web backend's metadata cache (CacheStorage): request handlers insert
\* entries while the task spawned by start_periodic_writes writes the cache
\* to its file.  cache and dirty are behind separate RwLocks, each held for
\* one block only, so a block is one step and the blocks of different tasks
\* interleave freely.
\* ---------------------------------------------------------------------------
Metadata == "metadata"

InitStorage ==
    /\ algorithm = "none"
    /\ start = 0
    /\ target = 0
    /\ config = [min_match |-> 0, top_related |-> 0]
    /\ fx_order = AscendingOrder
    /\ forward_graph_data = <<>>
    /\ forward_graph_index = EmptyMap
    /\ reverse_graph_data = <<>>
    /\ reverse_graph_index = EmptyMap
    /\ SearchIdle
    /\ ContextIdle
    /\ LookupIdle
    /\ previous = NoPrevious
    /\ artist_id = 0
    /\ connections = <<>>
    /\ StorageNew
    /\ pc = "serving"

search_vars == << inputs, pc, bfs_vars, dijkstra_vars, path >>
request_vars == << accessor_vars, context_vars, lookup_vars, previous >>

\* insert, its first block: cache.write().await; cache.insert(artist_id, metadata)
insert_cache(h) ==
    /\ insert_pc[h].pc = "idle"
    /\ \E id \in Artists :
          /\ cache' = MapInsert(cache, id, Metadata)
          /\ insert_pc' = [insert_pc EXCEPT ![h] = [pc |-> "cached", artist_id |-> id]]
    /\ UNCHANGED << cache_file, dirty, writer_pc, search_vars, request_vars >>

\* insert, its second block: dirty.write().await; *dirty = true
insert_dirty(h) ==
    /\ insert_pc[h].pc = "cached"
    /\ dirty' = TRUE
    /\ insert_pc' = [insert_pc EXCEPT ![h] = Resting]
    /\ UNCHANGED << cache, cache_file, writer_pc, search_vars, request_vars >>

\* periodic_write_task: interval.tick().await, then is_dirty is read
periodic_write_task_tick ==
    /\ writer_pc = "tick"
    /\ writer_pc' = IF dirty THEN "write" ELSE "tick"
    /\ UNCHANGED << cache, cache_file, dirty, insert_pc, search_vars, request_vars >>

\* write_cache_to_disk returning Ok: under the cache's read lock the map is
\* serialized, written to the temp file and renamed over the cache file
write_cache_to_disk_ok ==
    /\ writer_pc = "write"
    /\ cache_file' = cache
    /\ writer_pc' = "clear"
    /\ UNCHANGED << cache, dirty, insert_pc, search_vars, request_vars >>

\* write_cache_to_disk returning Err: the cache file is as it was and the
\* dirty flag is left alone until the next tick
write_cache_to_disk_err ==
    /\ writer_pc = "write"
    /\ writer_pc' = "tick"
    /\ UNCHANGED << cache, cache_file, dirty, insert_pc, search_vars, request_vars >>

\* periodic_write_task after an Ok: dirty.write().await; *dirty = false
periodic_write_task_clear ==
    /\ writer_pc = "clear"
    /\ dirty' = FALSE
    /\ writer_pc' = "tick"
    /\ UNCHANGED << cache, cache_file, insert_pc, search_vars, request_vars >>

NextStorage ==
    \/ \E h \in Handlers : insert_cache(h)
    \/ \E h \in Handlers : insert_dirty(h)
    \/ periodic_write_task_tick
    \/ write_cache_to_disk_ok
    \/ write_cache_to_disk_err
    \/ periodic_write_task_clear

SpecStorage == InitStorage /\ [][NextStorage]_vars

\* ------------------------------------------------- what the files store
\* the record of artist a as stored (no filter, no sort, no cap)
StoredConnections(graph_data, graph_index, a) ==
    IF a \in DOMAIN graph_index /\ graph_index[a] < Len(graph_data)
    THEN parse_artist_connections(
             a, create_cursor_at_position(graph_data, graph_index[a])).connections
    ELSE <<>>

ForwardEdges(a) == StoredConnections(forward_graph_data, forward_graph_index, a)
ReverseEdges(a) == StoredConnections(reverse_graph_data, reverse_graph_index, a)

\* the stored forward edges as triples <<source, target, similarity>>
ForwardEdgeSet ==
    UNION { LET e == ForwardEdges(u)
            IN  { <<u, e[i][1], e[i][2]>> : i \in 1..Len(e) } : u \in Artists }

\* the edges of G that pass the min_match filter of the query
PassingEdges(G) == { e \in G : config.min_match > 0 => e[3] >= config.min_match }

HasEdge(G, u, v) == \E e \in G : e[1] = u /\ e[2] = v

EdgeSimilarity(G, u, v) == (CHOOSE e \in G : e[1] = u /\ e[2] = v)[3]

\* top_related cuts no stored edge list
NoTruncation ==
    \A a \in Artists :
        /\ Len(ForwardEdges(a)) <= config.top_related
        /\ Len(ReverseEdges(a)) <= config.top_related

\* number of edges of a shortest directed path over G from the frontier to t;
\* -1 when there is none
RECURSIVE HopDistance(_, _, _, _, _)
HopDistance(G, frontier, seen, t, d) ==
    IF t \in frontier THEN d
    ELSE IF frontier = {} THEN -1
    ELSE LET next == { e[2] : e \in { x \in G : x[1] \in frontier } } \ seen
         IN  HopDistance(G, next, seen \cup next, t, d + 1)

ShortestHops(G, s, t) == HopDistance(G, {s}, {s}, t, 0)

\* t can be reached from s over the stored edges that pass min_match
Reachable(s, t) == ShortestHops(PassingEdges(ForwardEdgeSet), s, t) >= 0


\* more than the cost of any simple path
Infinity == NumArtists * SimOne + 1

\* Bellman-Ford over G, cost 1 - similarity in quarters
RECURSIVE RelaxRounds(_, _, _)
RelaxRounds(G, dist, n) ==
    IF n = 0 THEN dist
    ELSE RelaxRounds(
             G,
             [v \in Artists |->
                 MinOfSet({dist[v]} \cup
                          { dist[e[1]] + SimOne - e[3] :
                              e \in { x \in G : x[2] = v /\ dist[x[1]] < Infinity } })],
             n - 1)

MinimalCost(G, s, t) ==
    RelaxRounds(G, [v \in Artists |-> IF v = s THEN 0 ELSE Infinity], NumArtists)[t]

FollowsEdges(G, steps) ==
    \A i \in 1..(Len(steps) - 1) : HasEdge(G, steps[i][1], steps[i + 1][1])

RECURSIVE PathCost(_, _)
PathCost(G, steps) ==
    IF Len(steps) <= 1 THEN 0
    ELSE SimOne - EdgeSimilarity(G, steps[1][1], steps[2][1]) + PathCost(G, Tail(steps))

Returned == pc = "done"

\* ----------------------------------------------------------------- claims
\* C1: when the target is reachable (min_match 0, no edge list cut, reverse
\* file the transpose), bidirectional BFS returns a path whose number of edges
\* is the unweighted shortest-path distance from start to target.
BfsReturnsShortestPath ==
    (Returned /\ algorithm = "bfs" /\ config.min_match = 0 /\ NoTruncation
        /\ Reachable(start, target))
    => (path.some
        /\ Len(path.steps) - 1 = ShortestHops(ForwardEdgeSet, start, target))

\* C2: when the target is reachable (min_match 0, no edge list cut), the path
\* bidirectional Dijkstra returns has the least sum of 1 - similarity among
\* all directed paths from start to target.
DijkstraReturnsMinimalCost ==
    (Returned /\ algorithm = "dijkstra" /\ config.min_match = 0 /\ NoTruncation
        /\ Reachable(start, target))
    => LET G == ForwardEdgeSet
       IN  /\ path.some
           /\ FollowsEdges(G, path.steps)
           /\ PathCost(G, path.steps) = MinimalCost(G, start, target)

\* C3: a returned path begins with start, ends with target, and every
\* consecutive pair of it is an edge stored in the forward graph.
PathFollowsForwardEdges ==
    (Returned /\ path.some)
    => /\ Len(path.steps) >= 1
       /\ path.steps[1][1] = start
       /\ path.steps[Len(path.steps)][1] = target
       /\ FollowsEdges(ForwardEdgeSet, path.steps)

\* a path whose meeting point lies strictly between start and target
MetInTheMiddle ==
    /\ Returned
    /\ path.some
    /\ Len(path.steps) >= 3
    /\ \/ algorithm = "bfs" /\ forward_parent # EmptyMap /\ reverse_parent # EmptyMap
       \/ algorithm = "dijkstra" /\ forward_state.parent_map # EmptyMap
                                 /\ reverse_state.parent_map # EmptyMap

\* C4: in a returned path the first element carries similarity 0.0 and every
\* later element carries the stored similarity of the edge entering it,
\* the target and the half rebuilt from the reverse search included.
PathCarriesEnteringSimilarity ==
    (Returned /\ path.some)
    => LET G == ForwardEdgeSet
       IN  FollowsEdges(G, path.steps)
           => /\ path.steps[1][2] = 0
              /\ \A i \in 2..Len(path.steps) :
                     path.steps[i][2]
                         = EdgeSimilarity(G, path.steps[i - 1][1], path.steps[i][1])

\* work a BFS side has left: 2 for an artist not yet enqueued, 1 for a queued one
BfsPotential(side_visited, queued) ==
    2 * Cardinality(Artists \ (side_visited \cup queued)) + Cardinality(queued \ side_visited)

\* work a Dijkstra side has left: every push lowers a distance by a quarter or
\* more, every pop shortens the heap
RECURSIVE DistanceSum(_, _)
DistanceSum(distances, n) ==
    IF n = 0 THEN 0
    ELSE DistanceSum(distances, n - 1)
         + (IF n \in DOMAIN distances THEN distances[n] ELSE Infinity)

DijkstraPotential(state) == 2 * DistanceSum(state.distances, NumArtists) + Len(state.heap)

\* where the loop stands, ordered along the steps that pop nothing
LoopPosition ==
    CASE pc = "done" -> 0
      [] pc = "call" -> 2
      [] pc = "forward" -> 2
      [] pc = "reverse" /\ algorithm = "bfs" -> IF Len(reverse_queue) = 0 THEN 3 ELSE 1
      [] pc = "reverse" /\ algorithm = "dijkstra" -> IF forward_finished THEN 1 ELSE 3

\* a natural number that every step of a search lowers
Rank ==
    4 * (BfsPotential(forward_visited, forward_queued)
         + BfsPotential(reverse_visited, reverse_queued)
         + DijkstraPotential(forward_state) + DijkstraPotential(reverse_state))
    + LoopPosition

\* C5: when no directed path from start to target exists over the edges that
\* pass min_match, the search ends after finitely many steps and returns None:
\* unless there is such a path, every step of the search lowers Rank, which
\* never goes below 0, and the step that returns, returns None.  (A search
\* that has not returned has a next step: the loop blocks nowhere.)
NoPathTerminatesWithNone ==
    [][ \/ /\ Rank' < Rank
           /\ Rank' >= 0
           /\ Returned' => ~path'.some
        \/ Reachable(start, target) ]_vars

\* both frontiers ran empty after the search went beyond its two end points
SearchExhausted ==
    /\ Returned
    /\ ~path.some
    /\ Cardinality(forward_visited \cup reverse_visited
                   \cup forward_state.visited \cup reverse_state.visited) >= 3
    /\ ~Reachable(start, target)

\* C6: when start = target the result is the one-element path (start, 0.0),
\* whatever the graph holds and whether or not the artist has a record.
SameArtistPath ==
    (Returned /\ start = target) => path = Some(<< <<start, 0>> >>)

\* the query of an artist on itself returned; the artist has edges, or it has
\* no record in either file
SameArtistReturned ==
    /\ Returned
    /\ start = target
    /\ \/ Len(ForwardEdges(start)) > 0 /\ Len(ReverseEdges(start)) > 0
       \/ start \notin DOMAIN forward_graph_index /\ start \notin DOMAIN reverse_graph_index

\* C7: with min_match > 0 a returned path has no consecutive pair whose stored
\* similarity is below min_match, and the result is None when every directed
\* path needs such an edge.
MinMatchRespected ==
    (Returned /\ config.min_match > 0 /\ path.some)
    => /\ FollowsEdges(PassingEdges(ForwardEdgeSet), path.steps)
       /\ Reachable(start, target)

\* a path of two edges returned under a filter that drops a stored edge
FilteredPathReturned ==
    /\ Returned
    /\ config.min_match > 0
    /\ path.some
    /\ Len(path.steps) >= 3
    /\ PassingEdges(ForwardEdgeSet) # ForwardEdgeSet

\* ----------------------------------------------- claims on the accessor
Accessed == pc = "accessed"

Indexed == artist_id \in DOMAIN forward_graph_index
Offset == forward_graph_index[artist_id]
BytesAt(first, n) == SubSeq(forward_graph_data, first + 1, first + n)

\* the count the record at Offset declares
DeclaredCount == BytesLE(BytesAt(Offset + UuidLen, U32Len))

NotIndexed == ~Indexed
OffsetPastEnd == Indexed /\ Offset >= Len(forward_graph_data)
UuidReadable == Indexed /\ Offset + UuidLen <= Len(forward_graph_data)
UuidMismatch == UuidReadable /\ BytesAt(Offset, UuidLen) # UuidBytes(artist_id)
HeaderReadable == Indexed /\ Offset + UuidLen + U32Len <= Len(forward_graph_data)
RecordComplete ==
    /\ HeaderReadable
    /\ Offset + UuidLen + U32Len + DeclaredCount * (UuidLen + F32Len)
           <= Len(forward_graph_data)
\* the header or a declared edge cannot be fully read
Truncated == Indexed /\ Offset < Len(forward_graph_data) /\ ~RecordComplete

\* a complete record of the requested artist
WellFormedRecord == RecordComplete /\ ~UuidMismatch

\* the edges of the record, read off the bytes by position
DecodedRecord ==
    [i \in 1..DeclaredCount |->
        LET base == Offset + UuidLen + U32Len + (i - 1) * (UuidLen + F32Len)
        IN  << BytesBE(BytesAt(base, UuidLen)),
               F32FromBits(BytesLE(BytesAt(base + UuidLen, F32Len))) >>]

\* positions of raw that pass min_match
Kept(raw, min_match) ==
    { i \in 1..Len(raw) : min_match > 0 => raw[i][2] >= min_match }

\* entry i goes before entry j: higher similarity, or equal and earlier on disk
GoesBefore(raw, i, j) ==
    raw[i][2] > raw[j][2] \/ (raw[i][2] = raw[j][2] /\ i < j)

RankIn(raw, kept, i) == 1 + Cardinality({ j \in kept : GoesBefore(raw, j, i) })

\* C8: for a well-formed record the result is the first top_related entries
\* of: the entries with similarity >= min_match (all of them when
\* min_match <= 0), by descending similarity, equal ones in on-disk order.
AccessorReturnsTopRelated ==
    (Accessed /\ WellFormedRecord)
    => LET raw == DecodedRecord
           kept == Kept(raw, config.min_match)
       IN  /\ Len(connections) = Min(config.top_related, Cardinality(kept))
           /\ \A i \in kept :
                  RankIn(raw, kept, i) <= config.top_related
                      => connections[RankIn(raw, kept, i)] = raw[i]
           /\ \A k \in 1..(Len(connections) - 1) :
                  connections[k][2] >= connections[k + 1][2]

\* the filter dropped an entry, the cap dropped one of two equal entries
FilteredTiedAndCut ==
    /\ Accessed
    /\ WellFormedRecord
    /\ LET raw == DecodedRecord
           kept == Kept(raw, config.min_match)
       IN  /\ Cardinality(kept) < Len(raw)
           /\ Cardinality(kept) > config.top_related
           /\ Len(connections) >= 1
           /\ \E i, j \in kept :
                  /\ i < j
                  /\ raw[i][2] = raw[j][2]
                  /\ raw[i][1] # raw[j][1]
                  /\ RankIn(raw, kept, i) = config.top_related

Range(seq) == { seq[i] : i \in 1..Len(seq) }

ConnectionsUnder(min_match) ==
    get_artist_connections(artist_id, forward_graph_data, forward_graph_index,
                           [config EXCEPT !.min_match = min_match])

\* C9: for min_match1 <= min_match2 (same graph, artist and top_related) the
\* edges returned under min_match2 are among those returned under min_match1,
\* also when the cap cuts and when min_match1 <= 0 < min_match2.
MinMatchMonotone ==
    Accessed
    => \A m \in -1..SimOne :
           /\ m <= config.min_match => Range(connections) \subseteq Range(ConnectionsUnder(m))
           /\ m >= config.min_match => Range(ConnectionsUnder(m)) \subseteq Range(connections)

\* under a cap that cuts, the filter returned fewer edges than no filter does
FilterNarrowsCutList ==
    /\ Accessed
    /\ WellFormedRecord
    /\ config.min_match > 0
    /\ Len(DecodedRecord) > config.top_related
    /\ connections # <<>>
    /\ Range(connections) # Range(ConnectionsUnder(0))

ContextReturned == pc = "result"

\* the artists of a sequence of steps
PathArtists(steps) == { steps[i][1] : i \in 1..Len(steps) }

\* C11: the result is NoPath exactly when the search returned None; it is
\* PathTooLong exactly when a path was found that has more artists than
\* budget, and then minimum_budget_needed = path_length = the number of
\* artists of primary_path; it is Success in the remaining case, a path of at
\* most budget artists.
OutcomeDetermined ==
    ContextReturned
    => /\ result.kind \in {"NoPath", "PathTooLong", "Success"}
       /\ result.kind = "NoPath" <=> ~path.some
       /\ result.kind = "PathTooLong" <=> (path.some /\ Len(path.steps) > budget)
       /\ result.kind = "Success" <=> (path.some /\ Len(path.steps) <= budget)
       /\ result.kind # "NoPath" => result.primary_path = path.steps
       /\ result.kind = "PathTooLong"
              => /\ result.path_length > budget
                 /\ result.minimum_budget_needed = result.path_length
                 /\ result.path_length = Len(result.primary_path)
                 /\ result.path_length = Cardinality(PathArtists(result.primary_path))

\* each of the three outcomes was returned: a path of three artists under a
\* budget of two
PathTooLongReturned ==
    /\ ContextReturned
    /\ result.kind = "PathTooLong"
    /\ Len(path.steps) = 3
    /\ budget = 2

\* C12: a Success holds at most budget discovered artists, every artist of
\* primary_path among them.
SuccessWithinBudget ==
    (ContextReturned /\ result.kind = "Success")
    => /\ Cardinality(DOMAIN result.related_artists) <= budget
       /\ PathArtists(result.primary_path) \subseteq DOMAIN result.related_artists

\* the budget stopped the loop: an artist next to the path was left out
NeighborLeftOut ==
    /\ ContextReturned
    /\ result.kind = "Success"
    /\ Cardinality(DOMAIN result.related_artists) = budget
    /\ DOMAIN result.related_artists # PathArtists(result.primary_path)
    /\ \E a \in DOMAIN result.related_artists :
           \E i \in 1..Len(result.connections[a]) :
               result.connections[a][i][1] \notin DOMAIN result.related_artists


\* ------------------------------------------------------- exploration budget
ExploredByCore == pc \in {"explore_bfs", "explore_dijkstra"}

\* the edge list an explorer reads of an artist
ExploreList(a) ==
    get_cached_connections(a, forward_graph_data, forward_graph_index, config,
                           config.top_related)

ExploreTargets(a) == { ExploreList(a)[i][1] : i \in 1..Len(ExploreList(a)) }

RECURSIVE ReachClosure(_)
ReachClosure(S) ==
    LET next == S \cup UNION { ExploreTargets(a) : a \in S }
    IN  IF next = S THEN S ELSE ReachClosure(next)

\* the artists reachable from the center through the lists the explorer reads
ExploreReachable == ReachClosure({start})

DiscoveredCount == Cardinality(DOMAIN exploration.discovered_artists)

\* C13 as stated: an exploration by explore_bfs or explore_dijkstra with
\* budget >= 1 discovers at most budget artists, and exactly budget artists
\* whenever more than budget artists are reachable from the center
BudgetFilled ==
    ExploredByCore =>
        /\ DiscoveredCount <= budget
        /\ Cardinality(ExploreReachable) > budget => DiscoveredCount = budget

\* every artist an edge list names has a record in the graph index
TargetsIndexed == ExploreReachable \subseteq DOMAIN forward_graph_index

\* C13: an exploration by explore_bfs or explore_dijkstra with budget >= 1
\* discovers at most budget artists; it discovers exactly budget artists
\* whenever more than budget artists are reachable from the center and, for
\* explore_bfs, every reachable artist has a record in the graph index
BudgetFilledWhenIndexed ==
    ExploredByCore =>
        /\ DiscoveredCount <= budget
        /\ (/\ Cardinality(ExploreReachable) > budget
            /\ pc = "explore_bfs" => TargetsIndexed)
           => DiscoveredCount = budget

BudgetCutsExploration ==
    /\ pc = "explore_bfs"
    /\ TargetsIndexed
    /\ budget >= 2
    /\ Cardinality(ExploreReachable) > budget
    /\ DiscoveredCount = budget


\* ------------------------------------------------------------ emitted edges
\* the discovered-artist set of the result the edge list was built for
DiscoveredOfResult ==
    IF pc = "explore_graph" THEN DOMAIN exploration.discovered_artists
    ELSE DOMAIN result.related_artists

EdgesEmitted ==
    \/ pc = "explore_graph"
    \/ pc = "result" /\ result.kind = "Success"

\* the edges of the response: the path response keeps them as the Vec it
\* built, the ego-graph response as the set of its entries
EdgesOfResult == IF pc = "explore_graph" THEN edges ELSE Range(edges)

\* C14: every edge (u, v, s) emitted for an ego-graph exploration or for a
\* path-with-context Success has u # v and both u and v among the discovered
\* artists of that result
EdgesWithinDiscovered ==
    EdgesEmitted =>
        \A e \in EdgesOfResult : /\ e[1] # e[2]
                                 /\ e[1] \in DiscoveredOfResult
                                 /\ e[2] \in DiscoveredOfResult

\* an artist of the result lists itself and an artist left undiscovered, and
\* edges are emitted all the same
LoopAndStrangerFiltered ==
    /\ EdgesEmitted
    /\ EdgesOfResult # {}
    /\ \E a \in DiscoveredOfResult :
          LET list == IF pc = "explore_graph" THEN exploration.connections[a]
                      ELSE result.connections[a]
          IN  /\ \E i \in 1..Len(list) : list[i][1] = a
              /\ \E i \in 1..Len(list) : list[i][1] \notin DiscoveredOfResult


\* ---------------------------------------------------------- name resolution
Resolved == pc \in {"find_best_artist_match", "find_artist_id"}

ListedIds == app_name_lookup[clean_str(artist1)]

ExactNames ==
    { i \in 1..Len(ListedIds) :
        to_lowercase(app_artist_metadata[ListedIds[i]]) = to_lowercase(artist1) }

\* C15: a name whose normalized form is absent is not found; otherwise the
\* resolved artist is the only listed one, or the first listed one whose
\* display name lowercased equals the query lowercased, or the first listed
\* one when no display name does; it is always one of the listed artists
ResolutionPrefersExactName ==
    Resolved =>
        IF clean_str(artist1) \notin DOMAIN app_name_lookup THEN ~resolved.ok
        ELSE /\ resolved.ok
             /\ \E i \in 1..Len(ListedIds) : resolved.id = ListedIds[i]
             /\ resolved.id = IF Len(ListedIds) > 1 /\ ExactNames # {}
                              THEN ListedIds[MinOfSet(ExactNames)]
                              ELSE ListedIds[1]

\* ------------------------------------------------------------ normalization
\* C16: normalizing a normalized name changes nothing
CleanStrIdempotent == pc = "clean_str" => clean_str(cleaned) = cleaned

\* a name that transliteration, trimming, lowercasing and collapsing all change
NameCleaned ==
    /\ pc = "clean_str"
    /\ \E i \in 1..Len(artist1) : artist1[i] = HanZhong
    /\ \E i \in 1..Len(artist1) : artist1[i] = NoBreakSpace
    /\ Len(split_whitespace(unidecode(artist1))) > 1
    /\ clean_str(cleaned) = cleaned


\* -------------------------------------------------------------- determinism
ReturnedAgain == pc = "done" /\ previous # NoPrevious

AccessorEdgeSet ==
    UNION { LET e == get_artist_connections(u, forward_graph_data, forward_graph_index, config)
            IN  { <<u, e[i][1], e[i][2]>> : i \in 1..Len(e) } : u \in Artists }

ReachableThroughAccessor == ShortestHops(AccessorEdgeSet, start, target) >= 0

\* C18: when the target is reachable from the start through the forward edge
\* lists the accessor returns under the config, find_path returns a path
ReachableTargetFound == (Returned /\ ReachableThroughAccessor) => path.some


\* the reverse edges the accessor returns under the config, source first
ReverseAccessorEdgeSet ==
    UNION { LET e == get_artist_connections(u, reverse_graph_data, reverse_graph_index, config)
            IN  { <<u, e[i][1], e[i][2]>> : i \in 1..Len(e) } : u \in Artists }

\* a path is returned although the truncated reverse lists lead from the
\* target to no artist that reaches the start
FoundByForwardSideOnly ==
    /\ Returned
    /\ path.some
    /\ start # target
    /\ ReachableThroughAccessor
    /\ ShortestHops(ReverseAccessorEdgeSet, target, start) < 0


\* ------------------------------------------------------------ Dijkstra gap
\* the walks from s to t over G that repeat no artist, as artist sequences
SimplePaths(G, s, t) ==
    { q \in UNION { [1..n -> Artists] : n \in 1..NumArtists } :
        /\ q[1] = s
        /\ q[Len(q)] = t
        /\ \A i, j \in 1..Len(q) : i # j => q[i] # q[j]
        /\ \A i \in 1..(Len(q) - 1) : HasEdge(G, q[i], q[i + 1]) }

EdgeWeight(G, u, v) == SimOne - EdgeSimilarity(G, u, v)

WalkCost(G, q) ==
    IF Len(q) <= 1 THEN 0
    ELSE LET step(i) == EdgeWeight(G, q[i], q[i + 1])
             RECURSIVE sum(_)
             sum(i) == IF i = 0 THEN 0 ELSE step(i) + sum(i - 1)
         IN  sum(Len(q) - 1)

HeaviestEdge(G, q) ==
    IF Len(q) <= 1 THEN 0
    ELSE MaxOfSet({ EdgeWeight(G, q[i], q[i + 1]) : i \in 1..(Len(q) - 1) })

OptimalPaths(G, s, t) ==
    { q \in SimplePaths(G, s, t) : WalkCost(G, q) = MinimalCost(G, s, t) }

DijkstraUntruncated ==
    /\ Returned
    /\ algorithm = "dijkstra"
    /\ config.min_match = 0
    /\ NoTruncation
    /\ path.some

\* C19: with min_match 0 and no truncation, the path bidirectional Dijkstra
\* returns costs at most the optimal cost plus the weight of the heaviest
\* edge of an optimal path, whichever optimal path is taken
GapWithinHeaviestEdge ==
    DijkstraUntruncated =>
        LET G == ForwardEdgeSet
        IN  /\ FollowsEdges(G, path.steps)
            /\ \A q \in OptimalPaths(G, start, target) :
                  PathCost(G, path.steps) <= WalkCost(G, q) + HeaviestEdge(G, q)

\* the returned path is not optimal
SuboptimalWithinGap ==
    /\ DijkstraUntruncated
    /\ PathCost(ForwardEdgeSet, path.steps) > MinimalCost(ForwardEdgeSet, start, target)


\* ------------------------------------------------------------------ BFS gap
BfsUntruncated ==
    /\ Returned
    /\ algorithm = "bfs"
    /\ config.min_match = 0
    /\ NoTruncation
    /\ path.some

SideInOrder(queue, side_visited, queued) ==
    /\ side_visited \cap queued = {}
    /\ Range(queue) = queued
    /\ Len(queue) = Cardinality(queued)

\* a parent entry, once written, stays as it is
ParentsKept(parent, parent_after) ==
    \A a \in DOMAIN parent : a \in DOMAIN parent_after /\ parent_after[a] = parent[a]

BfsRunning == algorithm = "bfs" /\ pc \in {"forward", "reverse", "done"}

BfsSidesInOrder ==
    BfsRunning =>
        /\ SideInOrder(forward_queue, forward_visited, forward_queued)
        /\ SideInOrder(reverse_queue, reverse_visited, reverse_queued)

\* C21: on each side of a bidirectional BFS the visited and the queued set
\* are disjoint and the queue holds exactly the queued set, each artist once,
\* so that no popped artist is already visited; and no step rewrites a parent
\* entry or enqueues an artist that was visited or queued before
BfsBookkeeping ==
    /\ []BfsSidesInOrder
    /\ [][BfsRunning =>
            /\ ParentsKept(forward_parent, forward_parent')
            /\ ParentsKept(reverse_parent, reverse_parent')
            /\ (forward_queued' \ forward_queued) \cap forward_visited = {}
            /\ (reverse_queued' \ reverse_queued) \cap reverse_visited = {}]_vars

\* both sides have popped and enqueued, and an artist stands in both queues
BothSidesQueued ==
    /\ BfsRunning
    /\ Cardinality(forward_visited) >= 2
    /\ reverse_visited # {}
    /\ forward_queued \cap reverse_queued # {}
    /\ DOMAIN forward_parent # {}
    /\ DOMAIN reverse_parent # {}


\* --------------------------------------------------------- the two sides
Searching == pc \in {"forward", "reverse"}

VisitedForward == IF algorithm = "bfs" THEN forward_visited ELSE forward_state.visited

VisitedReverse == IF algorithm = "bfs" THEN reverse_visited ELSE reverse_state.visited

ParentForward == IF algorithm = "bfs" THEN forward_parent ELSE forward_state.parent_map

ParentReverse == IF algorithm = "bfs" THEN reverse_parent ELSE reverse_state.parent_map

\* v follows u in the path by a parent entry of one of the sides
LinkedByParent(u, v) ==
    \/ v \in DOMAIN ParentForward /\ ParentForward[v][1] = u
    \/ u \in DOMAIN ParentReverse /\ ParentReverse[u][1] = v

\* C22: until the search returns no artist is visited by both sides; a
\* returned path names no artist twice, runs from start to target, and each
\* of its steps is a parent entry, so that no walk stopped at a missing one
SidesApartPathSimple ==
    /\ Searching => VisitedForward \cap VisitedReverse = {}
    /\ (Returned /\ path.some) =>
          /\ Cardinality(PathArtists(path.steps)) = Len(path.steps)
          /\ path.steps[1][1] = start
          /\ path.steps[Len(path.steps)][1] = target
          /\ \A i \in 1..(Len(path.steps) - 1) :
                LinkedByParent(path.steps[i][1], path.steps[i + 1][1])

\* a path of three artists joined from a forward and a reverse parent entry
JoinedFromBothSides ==
    /\ Returned
    /\ path.some
    /\ Len(path.steps) = 3
    /\ path.steps[2][1] \in DOMAIN ParentForward
    /\ path.steps[2][1] \in DOMAIN ParentReverse
    /\ VisitedForward # {} /\ VisitedReverse # {}


ReverseEdgeSet ==
    UNION { LET e == ReverseEdges(v)
            IN  { <<e[i][1], v, e[i][2]>> : i \in 1..Len(e) } : v \in Artists }

\* the two files hold the same edges
Transposed == ForwardEdgeSet = ReverseEdgeSet

EndpointUnindexed ==
    /\ start # target
    /\ \/ start \notin DOMAIN forward_graph_index
       \/ target \notin DOMAIN reverse_graph_index

\* C23 as stated: a search between two different artists returns None when
\* the start has no entry in the forward index or the target has none in the
\* reverse index, whatever the two files hold
NoneWhenEndpointUnindexed == (Returned /\ EndpointUnindexed) => ~path.some

\* C23: over a forward and a reverse file that hold the same edges, a search
\* between two different artists returns None when the start has no entry in
\* the forward index or the target has none in the reverse index
NoneWhenEndpointUnindexedTransposed ==
    (Returned /\ EndpointUnindexed /\ Transposed) => ~path.some

\* the start has no forward entry, the reverse side walked back from the
\* target over at least one edge, and the search returned None
UnindexedStartSearched ==
    /\ Returned /\ Transposed
    /\ start # target
    /\ start \notin DOMAIN forward_graph_index
    /\ target \in DOMAIN reverse_graph_index
    /\ Cardinality(VisitedReverse) >= 2
    /\ ~path.some


ContextGraphs ==
    BiDirectionalGraphs(forward_graph_data, forward_graph_index,
                        reverse_graph_data, reverse_graph_index)

\* the similarities with which the merged forward+reverse list of path
\* artist a names v
MergedSims(a, v) ==
    LET merged == both_connections(a, ContextGraphs, config)
    IN  { merged[i][2] : i \in { j \in 1..Len(merged) : merged[j][1] = v } }

Hits(answer, v) ==
    Cardinality({ a \in PathArtists(answer.primary_path) : MergedSims(a, v) # {} })

BestSim(answer, v) ==
    MaxOfSet({0} \cup UNION { MergedSims(a, v) : a \in PathArtists(answer.primary_path) })

Candidates(answer) ==
    { v \in Artists \ PathArtists(answer.primary_path) : Hits(answer, v) > 0 }

Admitted(answer) == DOMAIN answer.related_artists \ PathArtists(answer.primary_path)

Outranks(answer, v, w) ==
    \/ Hits(answer, v) > Hits(answer, w)
    \/ /\ Hits(answer, v) = Hits(answer, w)
       /\ BestSim(answer, v) >= BestSim(answer, w)

ContextAnswered == pc \in {"result", "again"} /\ result.kind = "Success"

EdgeEntries(u, v) == { k \in DOMAIN edges : edges[k][1] = u /\ edges[k][2] = v }

PathEdges(steps) == { <<steps[i][1], steps[i + 1][1]>> : i \in 1..(Len(steps) - 1) }

\* C25: the edge list of a Success holds every path edge exactly once, from
\* path[i] to path[i+1] with the similarity paired with path[i+1]; no two of
\* its entries have the same (from, to); none is a path edge turned round
PathEdgesOnceAndForward ==
    (ContextReturned /\ result.kind = "Success") =>
        LET steps == result.primary_path
        IN  /\ \A i \in 1..(Len(steps) - 1) :
                  /\ Cardinality(EdgeEntries(steps[i][1], steps[i + 1][1])) = 1
                  /\ \A k \in EdgeEntries(steps[i][1], steps[i + 1][1]) :
                        edges[k][3] = steps[i + 1][2]
            /\ \A u, v \in Artists : Cardinality(EdgeEntries(u, v)) <= 1
            /\ \A k \in DOMAIN edges : <<edges[k][2], edges[k][1]>> \notin PathEdges(steps)

\* a Success over a path of two edges whose list holds a further edge between
\* two artists of the path
EdgeBesideThePath ==
    /\ ContextReturned /\ result.kind = "Success"
    /\ Len(result.primary_path) = 3
    /\ Len(edges) > 2


\* C26: in every Success, the budget equal to the path length included, the
\* connections map has a list for exactly the discovered artists
ConnectionsKeyedByDiscovered ==
    (ContextReturned /\ result.kind = "Success") =>
        DOMAIN result.connections = DOMAIN result.related_artists

\* the budget equals the path length and a candidate neighbour is left out
BudgetSpentOnPath ==
    /\ ContextReturned /\ result.kind = "Success"
    /\ budget = Len(result.primary_path)
    /\ Candidates(result) # {}


\* the artists within k hops of the center through the lists the explorer
\* reads, stepping only onto artists that have a record in the graph index
RECURSIVE HopWithin(_)
HopWithin(k) ==
    IF k = 0 THEN {start}
    ELSE LET nearer == HopWithin(k - 1)
         IN  nearer \cup (UNION { ExploreTargets(a) : a \in nearer }
                          \cap DOMAIN forward_graph_index)

HopsFromCenter(v) == MinOfSet({ k \in 0..NumArtists : v \in HopWithin(k) })

LayerOf(v) == exploration.discovered_artists[v][2]
SimilarityOf(v) == exploration.discovered_artists[v][1]

\* C27: in the result of explore_bfs the center alone has layer 0; every
\* other discovered artist has its hop distance from the center as its layer,
\* and some discovered artist one layer below lists it with the similarity
\* recorded for it
LayersAreHopDistances ==
    pc = "explore_bfs" =>
        /\ start \in DOMAIN exploration.discovered_artists
        /\ LayerOf(start) = 0
        /\ \A v \in DOMAIN exploration.discovered_artists \ {start} :
              /\ LayerOf(v) # 0
              /\ v \in HopWithin(NumArtists)
              /\ LayerOf(v) = HopsFromCenter(v)
              /\ \E u \in DOMAIN exploration.discovered_artists :
                    /\ LayerOf(v) = LayerOf(u) + 1
                    /\ \E i \in 1..Len(ExploreList(u)) :
                          ExploreList(u)[i] = <<v, SimilarityOf(v)>>

\* an artist two hops from the center was discovered, although the center's
\* full list names it as well (the list the explorer reads is cut short of it)
SecondLayerDiscovered ==
    /\ pc = "explore_bfs"
    /\ \E v \in DOMAIN exploration.discovered_artists :
          /\ LayerOf(v) = 2
          /\ \E i \in 1..Len(ForwardEdges(start)) : ForwardEdges(start)[i][1] = v


ExploreEdgeSet ==
    UNION { { <<u, ExploreList(u)[i][1], ExploreList(u)[i][2]>> :
              i \in 1..Len(ExploreList(u)) } : u \in Artists }

\* one round of relaxation over the edges G, for the artists 1..v; costs is
\* the tuple of the costs known so far
RECURSIVE RelaxedUpTo(_, _, _)
RelaxedUpTo(G, costs, v) ==
    IF v = 0 THEN <<>>
    ELSE Append(RelaxedUpTo(G, costs, v - 1),
                MinOfSet({costs[v]} \cup
                         { costs[e[1]] + (SimOne - e[3]) :
                           e \in { x \in G : x[2] = v /\ costs[x[1]] < Infinity } }))

RECURSIVE CostsAfter(_, _, _)
CostsAfter(G, costs, rounds) ==
    IF rounds = 0 THEN costs
    ELSE CostsAfter(G, RelaxedUpTo(G, costs, NumArtists), rounds - 1)

RECURSIVE CostsAtStart(_)
CostsAtStart(v) ==
    IF v = 0 THEN <<>>
    ELSE Append(CostsAtStart(v - 1), IF v = start THEN 0 ELSE Infinity)

\* the cost of the cheapest walk from the center to each artist through the
\* lists the explorer reads, an edge weighing SimOne - similarity
TrueCosts == CostsAfter(ExploreEdgeSet, CostsAtStart(NumArtists), NumArtists)

Returned_artists == DOMAIN exploration.discovered_artists

\* every returned artist is at least as cheap to reach as every reachable
\* artist left out, and the similarity reported for it is SimOne less its
\* true cost
NearestReturned ==
    LET cost == TrueCosts
    IN  \A a \in Returned_artists :
            /\ cost[a] < Infinity
            /\ a # start => SimilarityOf(a) = SimOne - cost[a]
            /\ \A b \in Artists \ Returned_artists :
                  cost[b] < Infinity => cost[a] <= cost[b]

\* C28: explore_dijkstra with budget >= 1 returns the center and, beside it,
\* artists that are at least as cheap to reach as every reachable artist left
\* out, each with its true shortest-path cost
CenterAndNearestReturned ==
    pc = "explore_dijkstra" => (start \in Returned_artists /\ NearestReturned)

\* what explore_dijkstra returns is at least as cheap to reach as what it
\* leaves out, at true shortest-path cost, whether or not the center is kept
NearestReturnedByDijkstra == pc = "explore_dijkstra" => NearestReturned

\* the budget left a reachable artist out
ReachableLeftOut ==
    /\ pc = "explore_dijkstra"
    /\ \E b \in Artists \ Returned_artists : TrueCosts[b] < Infinity


\* C29: when explore_dijkstra is called with a min_similarity above 0, every
\* artist of the result is reported with a similarity of at least
\* min_similarity
ReportedSimilarityPasses ==
    (pc = "explore_dijkstra" /\ config.min_match > 0) =>
        \A a \in Returned_artists : SimilarityOf(a) >= config.min_match


\* no insert is between its two blocks and the writer waits for a tick
StorageAtRest ==
    /\ writer_pc = "tick"
    /\ \A h \in Handlers : insert_pc[h].pc = "idle"

OnDisk(id) == id \in DOMAIN cache_file /\ cache_file[id] = cache[id]

\* C30: whatever the interleaving of inserts with the writer task, when the
\* dirty flag is down and neither an insert nor a write is under way, the
\* cache file holds every entry of the in-memory cache
CleanMeansWritten ==
    (pc = "serving" /\ StorageAtRest /\ ~dirty) => \A id \in DOMAIN cache : OnDisk(id)

====
